---- MODULE Spec2Model ----
(***************************************************************************)
(* Behavioural-biometrics fraud detection (Rupak2906/Reimagine).           *)
(*                                                                         *)
(* The repository holds several small programs that do not share state:    *)
(*   - the risk scorer of the Data Debug page (frontend/src/App.jsx),      *)
(*   - the BehavioralTracker of the browser extension's content script,    *)
(*     and the Onboarding typing test of its popup,                        *)
(*   - the capture handlers and the feature extraction of the sign-up      *)
(*     page (frontend/src/components/SignUpPage.jsx).                      *)
(* Each is a group of variables with its own actions and specification.    *)
(*                                                                         *)
(* Numbers: in the scorer and the extension JavaScript doubles are         *)
(* modelled by integers.  Milliseconds, pixels and counts keep their unit; *)
(* the features that the generator draws from [0,1) (pathStraightness,     *)
(* scrollRhythm, typingConsistency, latencyConsistency) are in hundredths, *)
(* and so are their thresholds.  The sign-up page divides and takes square *)
(* roots: its numbers are exact fractions, with null, NaN and Infinity.    *)
(***************************************************************************)
EXTENDS Integers, Sequences, FiniteSets, TLC

VARIABLES
  \* ---- Data Debug page: risk scorer (App.jsx, DataDebugPage) ----
  newData,      \* the feature values drawn by the current scoring tick
  risk,         \* the additive point total of the last tick, before the clamp
  fraudData,    \* React state: the features, totalRiskScore and riskLevel
  \* ---- tracking hook (frontend/src/hooks/useBehavioralTracking.js) ----
  behaviorData, \* React state of the hook: the capture buffers and startTime
  \* ---- extension, content script: BehavioralTracker (unnamed/part_000) ----
  tracker,      \* the tracker object: [keystrokePattern (an array id), isTracking]
  heap,         \* the arrays the tracker allocated: array id -> keystrokes
  pattern,      \* the object the caller last got from getPattern
  dateNow,      \* Date.now()
  phase,        \* history: "new", "active" after a start, "stopped" after a stop
  session,      \* history: the events delivered while active since the last start
  patternPhase, \* history: the phase in which `pattern` was obtained
  patternFresh, \* history: no start since `pattern` was obtained
  \* ---- extension, popup: Onboarding (extension/popup/src/Onboarding.tsx) ----
  onboarding,   \* React state: [step, testInput, keystrokePattern, isRecording]
  stepTimers,   \* pending setTimeout(() => setStep(3), 500) callbacks
  storage,      \* chrome.storage.local: key -> value
  app,          \* popup App: [loading, onboardingComplete], pending callbacks
  realm,        \* which script of the extension runs: "content" or "popup"
  \* ---- sign-up page (frontend/src/components/SignUpPage.jsx) ----
  trackingState,  \* trackingState.current
  pageLoadTime,   \* pageLoadTime.current
  perfNow,        \* performance.now(), in ms
  scrollY,        \* window.scrollY
  uuids,          \* how many ids crypto.randomUUID() has handed out
  data,           \* the vectors collectMHacksData returned for the current session
  step,           \* React state: wizard step
  securityStep,   \* React state: security question shown at step 3
  formData,       \* React state: which of the fields the wizard tests are filled
  pending,        \* collections waiting for the fingerprint digest
  collectedBehavioralData,  \* collectedBehavioralData.current
  sessionEvents,  \* history: capture events handled since the last reset
  totalEvents,    \* history: capture events handled since the page was mounted
  keyLog,         \* history: the keydown and keyup events since the last reset
  mouseLog,       \* history: the pointer positions of the mousemove events since
                  \*          the last reset
  lastCapture,    \* history: the time of the last capture event since the last reset
  idleGaps,       \* history: the sum of the gaps over the idle threshold between
                  \*          consecutive capture events since the last reset
  clipboard,      \* history: whether a paste or copy event was handled since
                  \*          the last reset
  sessionPages,   \* history: the pages <<step, securityStep>> displayed when
                  \*          the capture events since the last reset were handled
  clicks,         \* history: clicks on Next and Previous
  displayed,      \* history: the values of securityStep step 3 was rendered with
  submit,         \* handleSubmit: its position, isSubmitting, submitError,
                  \* submitSuccess, the completion timer and its callback
  \* ---- extension, content script: loadBaseline (unnamed/part_000) ----
  baseline,       \* this.baseline of the tracker
  loads           \* the promise of the last loadBaseline call

scoreVars == <<newData, risk, fraudData>>

pageVars == <<scoreVars, behaviorData>>

trackerVars ==
  <<tracker, heap, pattern, phase, session, patternPhase, patternFresh>>

popupVars == <<onboarding, stepTimers, storage, app>>

captureVars ==
  <<trackingState, pageLoadTime, scrollY, sessionEvents, totalEvents, keyLog,
    mouseLog, lastCapture, idleGaps, clipboard, sessionPages>>

wizardVars ==
  <<step, securityStep, formData, pending, collectedBehavioralData, clicks,
    displayed>>

\* the calls to the stores: Supabase from handleSubmit, chrome.storage.local
\* from loadBaseline
storeVars == <<submit, baseline, loads>>

signupVars == <<captureVars, wizardVars, perfNow, uuids, data, storeVars>>

extensionVars == <<trackerVars, popupVars, dateNow, realm>>

vars == <<pageVars, extensionVars, signupVars>>

(***************************************************************************)
(*                    RISK SCORER  (App.jsx lines 5-89)                    *)
(***************************************************************************)

Features ==
  {"mouseJitter", "pathStraightness", "hoverDelay", "rageHover",
   "clickDuration", "scrollVelocity", "scrollRhythm", "mouseIdleTime",
   "interKeyDelay", "dwellTime", "backspaceRatio", "typingConsistency",
   "copyPasteDetected", "typingBurstPattern", "ipDistance", "vpnDetected",
   "timezoneMismatch", "deviceChanges", "latencyConsistency", "tabSwitches"}

\* useState initial value of fraudData (App.jsx lines 6-29)
InitialFraudData ==
  [mouseJitter |-> 0, pathStraightness |-> 0, hoverDelay |-> 0,
   rageHover |-> 0, clickDuration |-> 0, scrollVelocity |-> 0,
   scrollRhythm |-> 0, mouseIdleTime |-> 0, interKeyDelay |-> 0,
   dwellTime |-> 0, backspaceRatio |-> 0, typingConsistency |-> 0,
   copyPasteDetected |-> FALSE, typingBurstPattern |-> 0, ipDistance |-> 0,
   vpnDetected |-> FALSE, timezoneMismatch |-> 0, deviceChanges |-> 0,
   latencyConsistency |-> 0, tabSwitches |-> 0,
   totalRiskScore |-> 0, riskLevel |-> "SAFE"]

\* the feature part of a fraudData record
FeaturesOf(d) == [f \in Features |-> d[f]]

\* a plausible slip: the VPN rule left out of the sum
Risk_WithoutVpn(d) ==
    (IF d.mouseJitter > 45 THEN 6 ELSE IF d.mouseJitter > 25 THEN 3 ELSE 0)
  + (IF d.pathStraightness > 80 THEN 5 ELSE IF d.pathStraightness > 65 THEN 2 ELSE 0)
  + (IF d.hoverDelay < 50 THEN 7 ELSE IF d.hoverDelay < 150 THEN 3 ELSE 0)
  + (IF d.rageHover > 7 THEN 5 ELSE IF d.rageHover > 3 THEN 2 ELSE 0)
  + (IF d.clickDuration < 30 THEN 8 ELSE IF d.clickDuration < 70 THEN 4 ELSE 0)
  + (IF d.scrollVelocity > 4000 \/ d.scrollVelocity < 200 THEN 6 ELSE 0)
  + (IF d.scrollRhythm > 90 THEN 6 ELSE 0)
  + (IF d.mouseIdleTime < 200 THEN 5 ELSE 0)
  + (IF d.interKeyDelay < 40 THEN 7 ELSE IF d.interKeyDelay < 80 THEN 3 ELSE 0)
  + (IF d.dwellTime < 20 \/ d.dwellTime > 250 THEN 5 ELSE 0)
  + (IF d.backspaceRatio = 0 \/ d.backspaceRatio > 20 THEN 6 ELSE 0)
  + (IF d.typingConsistency < 10 THEN 6 ELSE 0)
  + (IF d.copyPasteDetected THEN 10 ELSE 0)
  + (IF d.ipDistance > 3000 THEN 10 ELSE IF d.ipDistance > 100 THEN 4 ELSE 0)
  + (IF d.timezoneMismatch > 3 THEN 8 ELSE 0)
  + (IF d.deviceChanges > 5 THEN 10 ELSE 0)
  + (IF d.latencyConsistency > 95 THEN 5 ELSE 0)
  + (IF d.tabSwitches > 10 THEN 6 ELSE 0)

\* The additive rule set, one line of the source per conjunct of the sum
\* (App.jsx lines 62-81).
Risk(d) ==
    (IF d.mouseJitter > 45 THEN 6 ELSE IF d.mouseJitter > 25 THEN 3 ELSE 0)
  + (IF d.pathStraightness > 80 THEN 5 ELSE IF d.pathStraightness > 65 THEN 2 ELSE 0)
  + (IF d.hoverDelay < 50 THEN 7 ELSE IF d.hoverDelay < 150 THEN 3 ELSE 0)
  + (IF d.rageHover > 7 THEN 5 ELSE IF d.rageHover > 3 THEN 2 ELSE 0)
  + (IF d.clickDuration < 30 THEN 8 ELSE IF d.clickDuration < 70 THEN 4 ELSE 0)
  + (IF d.scrollVelocity > 4000 \/ d.scrollVelocity < 200 THEN 6 ELSE 0)
  + (IF d.scrollRhythm > 90 THEN 6 ELSE 0)
  + (IF d.mouseIdleTime < 200 THEN 5 ELSE 0)
  + (IF d.interKeyDelay < 40 THEN 7 ELSE IF d.interKeyDelay < 80 THEN 3 ELSE 0)
  + (IF d.dwellTime < 20 \/ d.dwellTime > 250 THEN 5 ELSE 0)
  + (IF d.backspaceRatio = 0 \/ d.backspaceRatio > 20 THEN 6 ELSE 0)
  + (IF d.typingConsistency < 10 THEN 6 ELSE 0)
  + (IF d.copyPasteDetected THEN 10 ELSE 0)
  + (IF d.ipDistance > 3000 THEN 10 ELSE IF d.ipDistance > 100 THEN 4 ELSE 0)
  + (IF d.vpnDetected THEN 10 ELSE 0)
  + (IF d.timezoneMismatch > 3 THEN 8 ELSE 0)
  + (IF d.deviceChanges > 5 THEN 10 ELSE 0)
  + (IF d.latencyConsistency > 95 THEN 5 ELSE 0)
  + (IF d.tabSwitches > 10 THEN 6 ELSE 0)

\* a plausible slip: the first boundary taken with <= instead of <
RiskLevel_Inclusive(r) ==
  IF r <= 30 THEN "SAFE"
  ELSE IF r < 70 THEN "MEDIUM"
  ELSE IF r < 90 THEN "HIGH" ELSE "CRITICAL"

\* App.jsx line 83
RiskLevel(r) ==
  IF r < 30 THEN "SAFE"
  ELSE IF r < 70 THEN "MEDIUM"
  ELSE IF r < 90 THEN "HIGH" ELSE "CRITICAL"

\* a plausible slip: the clamp left out
ClampScore_None(r) == r

\* Math.min(100, risk), App.jsx line 85
ClampScore(r) == IF 100 < r THEN 100 ELSE r

\* setFraudData({...newData, totalRiskScore: Math.min(100, risk), riskLevel})
\* (App.jsx line 85)
Assessed(d) ==
  [f \in Features \cup {"totalRiskScore", "riskLevel"} |->
     IF f = "totalRiskScore" THEN ClampScore(Risk(d))
     ELSE IF f = "riskLevel" THEN RiskLevel(Risk(d))
     ELSE d[f]]

(***************************************************************************)
(* MetricCard (App.jsx lines 117-150): the status and the points a card    *)
(* shows.  A range is a string, here the sequence of its characters; the   *)
(* card tests it with includes, replace and parseFloat.  Numbers are in    *)
(* hundredths.                                                             *)
(***************************************************************************)
Digits == <<"0", "1", "2", "3", "4", "5", "6", "7", "8", "9">>

IsDigit(c) == \E i \in 1..10 : Digits[i] = c

DigitOf(c) == (CHOOSE i \in 1..10 : Digits[i] = c) - 1

\* String.prototype.includes for a one-character needle
Includes(str, c) == \E i \in 1..Len(str) : str[i] = c

\* String.prototype.replace(c, ''): the first occurrence only
Replace(str, c) ==
  IF ~Includes(str, c) THEN str
  ELSE LET i == CHOOSE j \in 1..Len(str) :
                  str[j] = c /\ \A k \in 1..(j - 1) : str[k] # c
       IN  SubSeq(str, 1, i - 1) \o SubSeq(str, i + 1, Len(str))

\* how many digits str has from index i on
RECURSIVE DigitRun(_, _)
DigitRun(str, i) ==
  IF i <= Len(str) /\ IsDigit(str[i]) THEN 1 + DigitRun(str, i + 1) ELSE 0

\* the decimal number written by the k digits of str from index i on
RECURSIVE NumberAt(_, _, _)
NumberAt(str, i, k) ==
  IF k = 0 THEN 0
  ELSE 10 * NumberAt(str, i, k - 1) + DigitOf(str[i + k - 1])

NaN == [nan |-> TRUE, h |-> 0]

\* parseFloat: leading blanks skipped, then the longest prefix that is a
\* decimal literal; NaN when there is none.  The result is in hundredths
\* (the ranges of the page have at most two decimals).
parseFloat(str) ==
  LET blanks == CHOOSE b \in 0..Len(str) :
                  /\ \A k \in 1..b : str[k] = " "
                  /\ (b < Len(str) => str[b + 1] # " ")
      i  == blanks + 1
      n1 == DigitRun(str, i)
      dot == i + n1 <= Len(str) /\ str[i + n1] = "."
      n2 == IF dot THEN DigitRun(str, i + n1 + 1) ELSE 0
      frac == IF n2 = 0 THEN 0
              ELSE IF n2 = 1 THEN 10 * NumberAt(str, i + n1 + 1, 1)
              ELSE NumberAt(str, i + n1 + 1, 2)
  IN  IF n1 = 0 /\ n2 = 0 THEN NaN
      ELSE [nan |-> FALSE, h |-> 100 * NumberAt(str, i, n1) + frac]

\* value > parseFloat(str) and value < parseFloat(str): false against NaN
Above(value, str) ==
  LET x == parseFloat(str) IN ~x.nan /\ value > x.h

Below(value, str) ==
  LET x == parseFloat(str) IN ~x.nan /\ value < x.h

\* riskPoints?.high || 0 and riskPoints?.medium || 0
PointsOf(riskPoints, band) ==
  IF band \in DOMAIN riskPoints THEN riskPoints[band] ELSE 0

\* MetricCard (App.jsx lines 117-131); value in hundredths
MetricCard(value, mediumRange, highRange, riskPoints) ==
  IF /\ highRange # <<>>
     /\ \/ Includes(highRange, ">") /\ Above(value, Replace(highRange, ">"))
        \/ Includes(highRange, "<") /\ Below(value, Replace(highRange, "<"))
  THEN [status |-> "HIGH RISK", risk |-> PointsOf(riskPoints, "high")]
  ELSE IF mediumRange # <<>>
  THEN [status |-> "MEDIUM RISK", risk |-> PointsOf(riskPoints, "medium")]
  ELSE [status |-> "NORMAL", risk |-> 0]

\* The mediumRange, highRange and riskPoints props of the cards of the page
\* (App.jsx lines 213-262), by the field of fraudData each card shows.
Cards ==
  [mouseJitter |->
     [mediumRange |-> <<"2", "5", "-", "4", "5">>,
      highRange |-> <<">", "4", "5">>,
      riskPoints |-> [medium |-> 3, high |-> 6]],
   pathStraightness |->
     [mediumRange |-> <<"0", ".", "6", "5", "-", "0", ".", "8">>,
      highRange |-> <<">", "0", ".", "8">>,
      riskPoints |-> [medium |-> 2, high |-> 5]],
   hoverDelay |->
     [mediumRange |-> <<"5", "0", "-", "1", "5", "0">>,
      highRange |-> <<"<", "5", "0">>,
      riskPoints |-> [medium |-> 3, high |-> 7]],
   rageHover |->
     [mediumRange |-> <<"4", "-", "7">>,
      highRange |-> <<">", "7">>,
      riskPoints |-> [medium |-> 2, high |-> 5]],
   clickDuration |->
     [mediumRange |-> <<"3", "0", "-", "7", "0">>,
      highRange |-> <<"<", "3", "0">>,
      riskPoints |-> [medium |-> 4, high |-> 8]],
   scrollVelocity |->
     [mediumRange |-> <<>>,
      highRange |-> <<">", "4", "0", "0", "0">>,
      riskPoints |-> [high |-> 6]],
   scrollRhythm |->
     [mediumRange |-> <<>>,
      highRange |-> <<">", "0", ".", "9">>,
      riskPoints |-> [high |-> 6]],
   mouseIdleTime |->
     [mediumRange |-> <<>>,
      highRange |-> <<"<", "2", "0", "0">>,
      riskPoints |-> [high |-> 5]],
   interKeyDelay |->
     [mediumRange |-> <<"<", "8", "0">>,
      highRange |-> <<"<", "4", "0">>,
      riskPoints |-> [medium |-> 3, high |-> 7]],
   dwellTime |->
     [mediumRange |-> <<>>,
      highRange |-> <<"<", "2", "0", " ", "o", "r", " ", ">", "2", "5", "0">>,
      riskPoints |-> [high |-> 5]],
   backspaceRatio |->
     [mediumRange |-> <<>>,
      highRange |-> <<"0", " ", "o", "r", " ", ">", "2", "0">>,
      riskPoints |-> [high |-> 6]],
   typingConsistency |->
     [mediumRange |-> <<>>,
      highRange |-> <<"<", "0", ".", "1", "0">>,
      riskPoints |-> [high |-> 6]],
   typingBurstPattern |->
     [mediumRange |-> <<>>,
      highRange |-> <<"1", "4", "5", "-", "1", "5", "5">>,
      riskPoints |-> [high |-> 7]],
   ipDistance |->
     [mediumRange |-> <<"1", "0", "0", "-", "3", "0", "0", "0">>,
      highRange |-> <<">", "3", "0", "0", "0">>,
      riskPoints |-> [medium |-> 4, high |-> 10]],
   timezoneMismatch |->
     [mediumRange |-> <<"1">>,
      highRange |-> <<">", "3">>,
      riskPoints |-> [medium |-> 3, high |-> 8]],
   deviceChanges |->
     [mediumRange |-> <<"2", "-", "4">>,
      highRange |-> <<">", "5">>,
      riskPoints |-> [medium |-> 4, high |-> 10]],
   latencyConsistency |->
     [mediumRange |-> <<>>,
      highRange |-> <<">", "0", ".", "9", "5">>,
      riskPoints |-> [high |-> 5]],
   tabSwitches |->
     [mediumRange |-> <<"4", "-", "1", "0">>,
      highRange |-> <<">", "1", "0">>,
      riskPoints |-> [medium |-> 3, high |-> 6]]]

\* the features the model keeps in hundredths (values between 0 and 1)
Fractional ==
  {"pathStraightness", "scrollRhythm", "typingConsistency",
   "latencyConsistency"}

\* the value of feature f, in hundredths
Hundredths(f, v) == IF f \in Fractional THEN v ELSE 100 * v

\* What the page shows for the metrics of fraudData d: a MetricCard per
\* numeric field, and the Copy-Paste and VPN/Proxy panels, which show
\* "+10 RISK" when detected (App.jsx lines 232-238 and 251-257).
Rendered(d) ==
  [f \in Features |->
     IF f \in {"copyPasteDetected", "vpnDetected"}
     THEN IF d[f] THEN [status |-> "DETECTED", risk |-> 10]
          ELSE [status |-> "NONE", risk |-> 0]
     ELSE MetricCard(Hundredths(f, d[f]), Cards[f].mediumRange,
                     Cards[f].highRange, Cards[f].riskPoints)]

(***************************************************************************)
(* Inputs of the scorer.  Every feature has a few representative values:   *)
(* each threshold of its rule, the value next to it on either side, and a  *)
(* value inside the normal range.                                          *)
(***************************************************************************)
Values ==
  [mouseJitter        |-> {10, 25, 26, 45, 46},
   pathStraightness   |-> {40, 65, 66, 80, 81},
   hoverDelay         |-> {49, 50, 149, 150, 300},
   rageHover          |-> {0, 3, 4, 7, 8},
   clickDuration      |-> {29, 30, 69, 70, 100},
   scrollVelocity     |-> {199, 200, 1000, 4000, 4001},
   scrollRhythm       |-> {50, 90, 91},
   mouseIdleTime      |-> {199, 200, 1000},
   interKeyDelay      |-> {39, 40, 79, 80, 150},
   dwellTime          |-> {19, 20, 80, 250, 251},
   backspaceRatio     |-> {0, 1, 5, 20, 21},
   typingConsistency  |-> {9, 10, 30},
   copyPasteDetected  |-> BOOLEAN,
   typingBurstPattern |-> {150},
   ipDistance         |-> {50, 100, 101, 3000, 3001},
   vpnDetected        |-> BOOLEAN,
   timezoneMismatch   |-> {0, 3, 4},
   deviceChanges      |-> {0, 5, 6},
   latencyConsistency |-> {50, 95, 96},
   tabSwitches        |-> {0, 10, 11}]

\* The values the generator of the page can draw (App.jsx lines 36-59):
\* lo + Math.random() * width lies in [lo, lo + width), Math.floor(Math.random()
\* * n) in 0..n-1, and Math.random() > p is either truth value.
GenValues ==
  [mouseJitter        |-> {v \in Values.mouseJitter : 0 <= v /\ v < 50},
   pathStraightness   |-> {v \in Values.pathStraightness : 0 <= v /\ v < 100},
   hoverDelay         |-> {v \in Values.hoverDelay : 100 <= v /\ v < 600},
   rageHover          |-> {v \in Values.rageHover : 0 <= v /\ v <= 9},
   clickDuration      |-> {v \in Values.clickDuration : 50 <= v /\ v < 200},
   scrollVelocity     |-> {v \in Values.scrollVelocity : 500 <= v /\ v < 3500},
   scrollRhythm       |-> {v \in Values.scrollRhythm : 0 <= v /\ v < 100},
   mouseIdleTime      |-> {v \in Values.mouseIdleTime : 200 <= v /\ v < 3000},
   interKeyDelay      |-> {v \in Values.interKeyDelay : 80 <= v /\ v < 280},
   dwellTime          |-> {v \in Values.dwellTime : 40 <= v /\ v < 140},
   backspaceRatio     |-> {v \in Values.backspaceRatio : 0 <= v /\ v < 15},
   typingConsistency  |-> {v \in Values.typingConsistency : 15 <= v /\ v < 50},
   copyPasteDetected  |-> BOOLEAN,
   typingBurstPattern |-> {v \in Values.typingBurstPattern : 100 <= v /\ v < 200},
   ipDistance         |-> {v \in Values.ipDistance : 0 <= v /\ v < 5000},
   vpnDetected        |-> BOOLEAN,
   timezoneMismatch   |-> {v \in Values.timezoneMismatch : 0 <= v /\ v <= 7},
   deviceChanges      |-> {v \in Values.deviceChanges : 0 <= v /\ v <= 7},
   latencyConsistency |-> {v \in Values.latencyConsistency : 0 <= v /\ v < 100},
   tabSwitches        |-> {v \in Values.tabSwitches : 0 <= v /\ v <= 14}]

\* The three families of metrics of the page (App.jsx lines 207-264).
MouseMetrics ==
  {"mouseJitter", "pathStraightness", "hoverDelay", "rageHover",
   "clickDuration", "scrollVelocity", "scrollRhythm", "mouseIdleTime"}

KeyboardMetrics ==
  {"interKeyDelay", "dwellTime", "backspaceRatio", "typingConsistency",
   "copyPasteDetected", "typingBurstPattern"}

NetworkMetrics == Features \ (MouseMetrics \cup KeyboardMetrics)

\* One value per feature in its normal range, in its medium band (the normal
\* value again for a one-band feature) and in its high band.
LevelValue ==
  [mouseJitter        |-> <<10, 26, 46>>,
   pathStraightness   |-> <<40, 66, 81>>,
   hoverDelay         |-> <<300, 149, 49>>,
   rageHover          |-> <<0, 4, 8>>,
   clickDuration      |-> <<100, 69, 29>>,
   scrollVelocity     |-> <<1000, 1000, 4001>>,
   scrollRhythm       |-> <<50, 50, 91>>,
   mouseIdleTime      |-> <<1000, 1000, 199>>,
   interKeyDelay      |-> <<150, 79, 39>>,
   dwellTime          |-> <<80, 80, 251>>,
   backspaceRatio     |-> <<5, 5, 0>>,
   typingConsistency  |-> <<30, 30, 9>>,
   copyPasteDetected  |-> <<FALSE, FALSE, TRUE>>,
   typingBurstPattern |-> <<150, 150, 150>>,
   ipDistance         |-> <<50, 101, 3001>>,
   vpnDetected        |-> <<FALSE, FALSE, TRUE>>,
   timezoneMismatch   |-> <<0, 0, 4>>,
   deviceChanges      |-> <<0, 0, 6>>,
   latencyConsistency |-> <<50, 50, 96>>,
   tabSwitches        |-> <<0, 0, 11>>]

\* The level-l value of feature f among the values V allows: the nearest lower
\* level when V does not reach level l.
LevelIn(V, f, l) ==
  IF LevelValue[f][l] \in V[f] THEN LevelValue[f][l]
  ELSE IF l = 3 /\ LevelValue[f][2] \in V[f] THEN LevelValue[f][2]
  ELSE LevelValue[f][1]

\* Scenarios: every family of metrics at one level.
Anchors(V) ==
  {[f \in Features |->
      LevelIn(V, f, IF f \in MouseMetrics THEN lv[1]
                    ELSE IF f \in KeyboardMetrics THEN lv[2] ELSE lv[3])]
   : lv \in (1..3) \X (1..3) \X (1..3)}

\* The records of P with at most one feature redrawn among V.
Redrawn(P, V) ==
  P \cup UNION {{[a EXCEPT ![f] = v] : a \in P, v \in V[f]} : f \in Features}

RECURSIVE Deviations(_, _)
Deviations(V, k) ==
  IF k = 0 THEN Anchors(V) ELSE Redrawn(Deviations(V, k - 1), V)

\* How many features of an input of the rule set differ from a scenario.
MaxDeviations == 1

\* inputs of the running page: what its generator can draw
GenSamples == Redrawn(Anchors(GenValues), GenValues)

\* inputs of the rule set: any band of any feature
RuleSamples == Deviations(Values, MaxDeviations)

\* inputs of the rule set with both boolean features true (App.jsx lines 74
\* and 76) next to a session whose other features are at one level, at most
\* one of them redrawn
FlaggedSamples ==
  {[d EXCEPT !.copyPasteDetected = TRUE, !.vpnDetected = TRUE] :
     d \in RuleSamples}


(***************************************************************************)
(*        BEHAVIORAL TRACKER  (unnamed/part_000, content script)           *)
(*                                                                         *)
(* JavaScript arrays are objects: this.keystrokePattern and the keystrokes *)
(* field of the object getPattern returns hold a reference.  The heap maps *)
(* array ids to contents; arrays nobody refers to are collected.           *)
(***************************************************************************)

\* longest keystroke array and latest clock value explored
MaxKeys == 2
MaxTime == 1

\* event.key of the keys typed into the card field
Keys == {"4", "5"}

ArrayIds == 1..3
NoArray == 0

\* the keystroke object of trackKeystroke (part_000 lines 89-94); Date.now()
\* and event.timeStamp are read from the same clock
KeystrokeOf(event, fieldType, t) ==
  [key |-> event.key, timestamp |-> t, duration |-> event.timeStamp,
   fieldType |-> fieldType]

\* a keydown event delivered at time t
KeyEvent(k, t) == [key |-> k, timeStamp |-> t]

\* `[]`: a new array object
FreshArray(h) ==
  CHOOSE r \in ArrayIds \ DOMAIN h : \A q \in ArrayIds \ DOMAIN h : r <= q

\* constructor (part_000 lines 71-75)
NewTracker == [keystrokePattern |-> 1, isTracking |-> FALSE]

\* a plausible slip: the array emptied in place (keystrokePattern.length = 0)
startTracking_InPlace(t, h) ==
  [t |-> [t EXCEPT !.isTracking = TRUE],
   h |-> [h EXCEPT ![t.keystrokePattern] = <<>>]]

\* startTracking (part_000 lines 77-80)
startTracking(t, h) ==
  LET r == FreshArray(h)
  IN  [t |-> [t EXCEPT !.isTracking = TRUE, !.keystrokePattern = r],
       h |-> h @@ (r :> <<>>)]

\* a plausible slip: the flag left set
stopTracking_Noop(t, h) == [t |-> t, h |-> h]

\* stopTracking (part_000 lines 82-84)
stopTracking(t, h) == [t |-> [t EXCEPT !.isTracking = FALSE], h |-> h]

\* a plausible slip: the isTracking guard left out
trackKeystroke_Unguarded(t, h, event, fieldType, t0) ==
  [t |-> t,
   h |-> [h EXCEPT ![t.keystrokePattern] =
                      Append(@, KeystrokeOf(event, fieldType, t0))]]

\* trackKeystroke (part_000 lines 86-97)
trackKeystroke(t, h, event, fieldType, t0) ==
  IF ~t.isTracking THEN [t |-> t, h |-> h]
  ELSE [t |-> t,
        h |-> [h EXCEPT ![t.keystrokePattern] =
                           Append(@, KeystrokeOf(event, fieldType, t0))]]

\* getPattern (part_000 lines 99-104): keystrokes is the array itself
getPattern(t, h) ==
  [keystrokes |-> t.keystrokePattern, totalKeys |-> Len(h[t.keystrokePattern])]

\* no pattern obtained yet
NoPattern == [keystrokes |-> NoArray, totalKeys |-> 0]

\* garbage collection: the arrays the tracker or the caller still refer to
Collect(h, t, p) ==
  [r \in ({t.keystrokePattern} \cup {p.keystrokes}) \ {NoArray} |-> h[r]]

\* what the tracker's array holds, and what the caller's pattern holds
Contents == heap[tracker.keystrokePattern]
PatternContents ==
  IF pattern.keystrokes = NoArray THEN <<>> ELSE heap[pattern.keystrokes]

\* tracker.startTracking(): the focus handler (part_000 lines 41-44) or any
\* other caller of the exported class (line 117)
StartTracking ==
  LET o == startTracking(tracker, heap)
  IN  /\ realm = "content"
      /\ tracker' = o.t
      /\ heap' = Collect(o.h, o.t, pattern)
      /\ phase' = "active"
      /\ session' = <<>>
      /\ patternFresh' = FALSE
      /\ UNCHANGED <<pattern, patternPhase, dateNow, pageVars, popupVars, realm, signupVars>>

\* tracker.stopTracking()
StopTracking ==
  LET o == stopTracking(tracker, heap)
  IN  /\ realm = "content"
      /\ tracker' = o.t
      /\ heap' = Collect(o.h, o.t, pattern)
      /\ phase' = "stopped"
      /\ UNCHANGED <<session, pattern, patternPhase, patternFresh, dateNow,
                     pageVars, popupVars, realm, signupVars>>

\* tracker.trackKeystroke(e, 'card'): the keydown handler (part_000 lines 46-48)
TrackKeystroke(k) ==
  LET o == trackKeystroke(tracker, heap, KeyEvent(k, dateNow), "card", dateNow)
  IN  /\ realm = "content"
      /\ Len(Contents) < MaxKeys
      /\ tracker' = o.t
      /\ heap' = Collect(o.h, o.t, pattern)
      /\ session' = IF phase = "active"
                    THEN Append(session,
                                KeystrokeOf(KeyEvent(k, dateNow), "card", dateNow))
                    ELSE session
      /\ UNCHANGED <<phase, pattern, patternPhase, patternFresh, dateNow,
                     pageVars, popupVars, realm, signupVars>>

\* const pattern = tracker.getPattern()
GetPattern ==
  /\ realm = "content"
  /\ pattern' = getPattern(tracker, heap)
  /\ heap' = Collect(heap, tracker, pattern')
  /\ patternPhase' = phase
  /\ patternFresh' = TRUE
  /\ UNCHANGED <<tracker, phase, session, dateNow, pageVars, popupVars, realm, signupVars>>

\* the blur handler (part_000 lines 50-55): stopTracking(), then getPattern()
Blur ==
  LET o == stopTracking(tracker, heap)
  IN  /\ realm = "content"
      /\ tracker' = o.t
      /\ pattern' = getPattern(o.t, o.h)
      /\ heap' = Collect(o.h, o.t, pattern')
      /\ phase' = "stopped"
      /\ patternPhase' = "stopped"
      /\ patternFresh' = TRUE
      /\ UNCHANGED <<session, dateNow, pageVars, popupVars, realm, signupVars>>

\* time passes between two events
AdvanceClock ==
  /\ dateNow < MaxTime
  /\ dateNow' = dateNow + 1
  /\ UNCHANGED <<trackerVars, pageVars, popupVars, realm, signupVars>>

InitTracker ==
  /\ tracker = NewTracker
  /\ heap = (1 :> <<>>)
  /\ pattern = NoPattern
  /\ dateNow = 0
  /\ phase = "new"
  /\ session = <<>>
  /\ patternPhase = "new"
  /\ patternFresh = FALSE


(***************************************************************************)
(*        ONBOARDING  (frontend/extension/popup/src/Onboarding.tsx)        *)
(*                                                                         *)
(* Strings the code inspects character by character are sequences of       *)
(* one-character strings.                                                  *)
(***************************************************************************)

\* pending step timers explored
MaxTimers == 1

\* Onboarding.tsx line 15
testCardNumber ==
  <<"4", "5", "3", "2", " ", "1", "2", "3", "4", " ",
    "5", "6", "7", "8", " ", "9", "0", "1", "0">>

\* value.replace(/\s/g, '') (Onboarding.tsx lines 38-39)
StripSpaces(str) == SelectSeq(str, LAMBDA c : c # " ")

\* values the input can take (at most maxLength = 19 characters): typed so
\* far, typed in full with or without the spaces, or something else
InputValues ==
  {<<>>, SubSeq(testCardNumber, 1, 1), SubSeq(testCardNumber, 1, 18),
   testCardNumber, StripSpaces(testCardNumber), <<"4", "4">>}

\* chrome.storage.local of a fresh installation, and after clear()
EmptyStorage == [k \in {} |-> TRUE]

\* chrome.storage.local.set(items): the given keys are written, the others
\* are kept
StorageSet(st, items) ==
  [k \in DOMAIN st \cup DOMAIN items |->
     IF k \in DOMAIN items THEN items[k] ELSE st[k]]

\* result.onboardingComplete || false (part_002 line 12)
StoredComplete(st) ==
  "onboardingComplete" \in DOMAIN st /\ st.onboardingComplete

\* useState initial values of App (part_002 lines 6-7); saving counts the
\* pending callbacks of chrome.storage.local.set, reloading is the pending
\* callback of chrome.storage.local.clear
NewApp ==
  [loading |-> TRUE, onboardingComplete |-> FALSE, saving |-> 0,
   reloading |-> FALSE]

\* App renders <Onboarding> (part_002 lines 17-35)
OnboardingShown == ~app.loading /\ ~app.onboardingComplete

\* App renders <Dashboard> (part_002 lines 17-35)
DashboardShown == ~app.loading /\ app.onboardingComplete

\* useState initial values (Onboarding.tsx lines 10-13)
NewOnboarding ==
  [step |-> 1, testInput |-> <<>>, keystrokePattern |-> <<>>,
   isRecording |-> FALSE]

\* startTest (Onboarding.tsx lines 17-21)
startTest(o) ==
  [o EXCEPT !.isRecording = TRUE, !.testInput = <<>>,
            !.keystrokePattern = <<>>]

\* handleKeyDown (Onboarding.tsx lines 23-33)
handleKeyDown(o, event, t) ==
  IF ~o.isRecording THEN o
  ELSE [o EXCEPT !.keystrokePattern =
                    Append(@, [key |-> event.key, timestamp |-> t,
                               duration |-> event.timeStamp])]

\* handleInputChange (Onboarding.tsx lines 35-45), the state part
handleInputChange(o, value) ==
  IF StripSpaces(value) = StripSpaces(testCardNumber)
  THEN [o EXCEPT !.testInput = value, !.isRecording = FALSE]
  ELSE [o EXCEPT !.testInput = value]

\* "Get Started", rendered on step 1 (Onboarding.tsx lines 104-135)
GetStarted ==
  /\ realm = "popup" /\ OnboardingShown
  /\ onboarding.step = 1
  /\ onboarding' = [onboarding EXCEPT !.step = 2]
  /\ UNCHANGED <<stepTimers, storage, app, trackerVars, pageVars, dateNow, realm, signupVars>>

\* "Start Typing Test", rendered on step 2 while not recording (lines 151-158)
StartTest ==
  /\ realm = "popup" /\ OnboardingShown
  /\ onboarding.step = 2 /\ ~onboarding.isRecording
  /\ onboarding' = startTest(onboarding)
  /\ UNCHANGED <<stepTimers, storage, app, trackerVars, pageVars, dateNow, realm, signupVars>>

\* keydown in the test input, rendered on step 2 while recording (lines 160-171)
ObKeyDown(k) ==
  /\ realm = "popup" /\ OnboardingShown
  /\ onboarding.step = 2 /\ onboarding.isRecording
  /\ Len(onboarding.keystrokePattern) < MaxKeys
  /\ onboarding' = handleKeyDown(onboarding, KeyEvent(k, dateNow), dateNow)
  /\ UNCHANGED <<stepTimers, storage, app, trackerVars, pageVars, dateNow, realm, signupVars>>

\* change of the test input: typing, deleting or pasting
ObInputChange(value) ==
  /\ realm = "popup" /\ OnboardingShown
  /\ onboarding.step = 2 /\ onboarding.isRecording
  /\ onboarding' = handleInputChange(onboarding, value)
  /\ IF StripSpaces(value) = StripSpaces(testCardNumber)
     THEN stepTimers < MaxTimers /\ stepTimers' = stepTimers + 1
     ELSE stepTimers' = stepTimers
  /\ UNCHANGED <<storage, app, trackerVars, pageVars, dateNow, realm, signupVars>>

\* the timeout of line 43 fires: setStep(3)
StepTimer ==
  /\ realm = "popup"
  /\ stepTimers > 0
  /\ stepTimers' = stepTimers - 1
  /\ onboarding' = IF OnboardingShown THEN [onboarding EXCEPT !.step = 3]
                   ELSE onboarding
  /\ UNCHANGED <<storage, app, trackerVars, pageVars, dateNow, realm, signupVars>>

InitPopup ==
  /\ onboarding = NewOnboarding
  /\ stepTimers = 0
  /\ storage = EmptyStorage
  /\ app = NewApp

NextTracker ==
  \/ StartTracking
  \/ StopTracking
  \/ \E k \in Keys : TrackKeystroke(k)
  \/ GetPattern
  \/ Blur
  \/ AdvanceClock

(***************************************************************************)
(*      SIGN-UP PAGE  (frontend/src/components/SignUpPage.jsx)             *)
(*                                                                         *)
(* JavaScript numbers.  A value is null or a number; a number is the       *)
(* fraction n/d in lowest terms (d = 0: NaN for n = 0, Infinity for        *)
(* n > 0), or the square root of such a fraction when it is irrational.    *)
(***************************************************************************)

RECURSIVE GCD(_, _)
GCD(a, b) == IF b = 0 THEN a ELSE GCD(b, a % b)

Abs(x) == IF x < 0 THEN -x ELSE x

\* the JavaScript value null
Null == [null |-> TRUE, n |-> 0, d |-> 1, r |-> FALSE]

\* the number n/d, d >= 0
Num(n, d) ==
  IF d = 0
  THEN [null |-> FALSE, n |-> IF n > 0 THEN 1 ELSE IF n < 0 THEN -1 ELSE 0,
        d |-> 0, r |-> FALSE]
  ELSE LET g == GCD(Abs(n), d)
       IN  [null |-> FALSE, n |-> n \div g, d |-> d \div g, r |-> FALSE]

IntN(n) == Num(n, 1)

\* ToNumber: null is 0 in arithmetic
ToNumber(x) == IF x.null THEN IntN(0) ELSE x

\* a + b, a - b, a * b, a / b on finite fractions (a / 0 is NaN or Infinity)
AddN(a, b) == Num(a.n * b.d + b.n * a.d, a.d * b.d)
SubN(a, b) == Num(a.n * b.d - b.n * a.d, a.d * b.d)
MulN(a, b) == Num(ToNumber(a).n * ToNumber(b).n, ToNumber(a).d * ToNumber(b).d)
DivN(a, b) == Num(a.n * b.d, a.d * b.n)

\* a plausible slip: Math.max left out, its first argument used as it is
MaxN_First(a, b) == a

\* Math.max(a, b) on finite fractions
MaxN(a, b) == IF a.n * b.d >= b.n * a.d THEN a ELSE b

\* the largest q in lo..hi with q * q <= k
RECURSIVE RootIn(_, _, _)
RootIn(k, lo, hi) ==
  IF lo = hi THEN lo
  ELSE LET mid == (lo + hi + 1) \div 2
       IN  IF mid * mid <= k THEN RootIn(k, mid, hi) ELSE RootIn(k, lo, mid - 1)

\* the integer square root; 46340 * 46340 is the largest square below 2^31
Root(k) == RootIn(k, 0, IF k < 46340 THEN k ELSE 46340)
IsSquare(k) == Root(k) * Root(k) = k

\* Math.sqrt of a fraction >= 0
SqrtN(a) ==
  IF IsSquare(a.n) /\ IsSquare(a.d) THEN Num(Root(a.n), Root(a.d))
  ELSE [a EXCEPT !.r = TRUE]

\* arr.reduce((a, b) => a + b, 0)
RECURSIVE SumN(_)
SumN(arr) == IF arr = <<>> THEN IntN(0) ELSE AddN(Head(arr), SumN(Tail(arr)))

\* avg (SignUpPage.jsx lines 7-10)
avg(arr) ==
  IF Len(arr) = 0 THEN Null
  ELSE DivN(SumN(arr), IntN(Len(arr)))

\* std (SignUpPage.jsx lines 12-17)
std(arr) ==
  IF Len(arr) = 0 THEN Null
  ELSE LET mean == avg(arr)
           sq == [i \in 1..Len(arr) |->
                    MulN(SubN(arr[i], mean), SubN(arr[i], mean))]
           variance == DivN(SumN(sq), IntN(Len(arr)))
       IN  SqrtN(variance)

(***************************************************************************)
(* The baseline of the popup (Onboarding.tsx saveBaseline, part_002 App and *)
(* Dashboard) in chrome.storage.local.                                      *)
(***************************************************************************)

\* pending callbacks of chrome.storage.local.set explored
MaxSaves == 2

\* intervals (Onboarding.tsx lines 50-54)
IntervalsOf(keystrokePattern) ==
  [i \in 1..(Len(keystrokePattern) - 1) |->
     IntN(keystrokePattern[i + 1].timestamp - keystrokePattern[i].timestamp)]

\* the baseline object (Onboarding.tsx lines 56-66)
BaselineOf(keystrokePattern) ==
  LET intervals == IntervalsOf(keystrokePattern)
      avgSpeed == DivN(SumN(intervals), IntN(Len(intervals)))
      sq == [i \in 1..Len(intervals) |->
               MulN(SubN(intervals[i], avgSpeed), SubN(intervals[i], avgSpeed))]
      variance == DivN(SumN(sq), IntN(Len(intervals)))
  IN  [typingSpeed |-> avgSpeed, rhythm |-> SqrtN(variance),
       keystrokeCount |-> Len(keystrokePattern),
       pattern |-> keystrokePattern]

\* the items saveBaseline hands to chrome.storage.local.set (lines 68-76);
\* userId is 'user_' + Date.now()
ItemsOf(keystrokePattern, now) ==
  [behavioralBaseline |-> BaselineOf(keystrokePattern),
   onboardingComplete |-> TRUE,
   userId |-> now,
   stats |-> [transactionsProtected |-> 0, threatsBlocked |-> 0,
              protectionActive |-> TRUE]]

\* a plausible slip: the length guard left out
saveBaseline_Unguarded(o, st, now) ==
  [called |-> TRUE, storage |-> StorageSet(st, ItemsOf(o.keystrokePattern, now))]

\* saveBaseline (Onboarding.tsx lines 47-81) up to the call of set: whether
\* set is called, and the storage after it
saveBaseline(o, st, now) ==
  IF Len(o.keystrokePattern) < 2 THEN [called |-> FALSE, storage |-> st]
  ELSE [called |-> TRUE,
        storage |-> StorageSet(st, ItemsOf(o.keystrokePattern, now))]

\* the callback of chrome.storage.local.get in App (part_002 lines 11-14)
AppLoaded ==
  /\ realm = "popup"
  /\ app.loading
  /\ app' = [app EXCEPT !.loading = FALSE,
                        !.onboardingComplete = StoredComplete(storage)]
  /\ UNCHANGED <<onboarding, stepTimers, storage, trackerVars, pageVars,
                 dateNow, realm, signupVars>>

\* "Activate Protection", rendered on step 3 (Onboarding.tsx lines 223-228)
ActivateProtection ==
  /\ realm = "popup" /\ OnboardingShown
  /\ onboarding.step = 3
  /\ LET r == saveBaseline(onboarding, storage, dateNow)
     IN  /\ storage' = r.storage
         /\ IF r.called
            THEN /\ app.saving < MaxSaves
                 /\ app' = [app EXCEPT !.saving = @ + 1]
            ELSE app' = app
  /\ UNCHANGED <<onboarding, stepTimers, trackerVars, pageVars, dateNow,
                 realm, signupVars>>

\* the callback of set (Onboarding.tsx lines 77-80): onComplete, which is
\* setOnboardingComplete(true) (part_002 line 33)
BaselineSaved ==
  /\ realm = "popup"
  /\ app.saving > 0
  /\ app' = [app EXCEPT !.saving = @ - 1, !.onboardingComplete = TRUE]
  /\ UNCHANGED <<onboarding, stepTimers, storage, trackerVars, pageVars,
                 dateNow, realm, signupVars>>

\* resetOnboarding with the confirmation accepted (part_002 lines 60-63):
\* the storage is cleared
ResetOnboarding ==
  /\ realm = "popup" /\ DashboardShown
  /\ storage' = EmptyStorage
  /\ app' = [app EXCEPT !.reloading = TRUE]
  /\ UNCHANGED <<onboarding, stepTimers, trackerVars, pageVars, dateNow,
                 realm, signupVars>>

\* the callback of clear (part_002 line 63): window.location.reload()
Reload ==
  /\ realm = "popup"
  /\ app.reloading
  /\ app' = NewApp
  /\ onboarding' = NewOnboarding
  /\ stepTimers' = 0
  /\ UNCHANGED <<storage, trackerVars, pageVars, dateNow, realm, signupVars>>

\* the popup is closed and opened again: a new page, the same storage
\* (part_002 lines 5-15)
Reopen ==
  /\ realm = "popup"
  /\ ~app.reloading
  /\ app' = NewApp
  /\ onboarding' = NewOnboarding
  /\ stepTimers' = 0
  /\ UNCHANGED <<storage, trackerVars, pageVars, dateNow, realm, signupVars>>

NextPopup ==
  \/ GetStarted
  \/ StartTest
  \/ \E k \in Keys : ObKeyDown(k)
  \/ \E value \in InputValues : ObInputChange(value)
  \/ StepTimer
  \/ AppLoaded
  \/ ActivateProtection
  \/ BaselineSaved
  \/ ResetOnboarding
  \/ Reload
  \/ Reopen

\* curvatureRatio (SignUpPage.jsx lines 19-23)
curvatureRatio(curvatureSamples) ==
  IF Len(curvatureSamples) = 0 THEN Null
  ELSE LET ratios == [i \in 1..Len(curvatureSamples) |->
                        DivN(curvatureSamples[i].actual,
                             MaxN(curvatureSamples[i].straight, IntN(1)))]
       IN  avg(ratios)

\* typingSpeed (SignUpPage.jsx lines 25-28)
typingSpeed(totalKeystrokes, durationMs) ==
  LET durationMin == DivN(IntN(durationMs), IntN(60000))
  IN  DivN(IntN(totalKeystrokes), MaxN(durationMin, Num(1, 100)))

\* truthiness of a number or null: null, 0 and NaN are falsy
Falsy(x) == x.null \/ x.n = 0

MaxNow == 2           \* performance.now() runs over 0..MaxNow * TickMs
TickMs == 400         \* the step of the clock, in ms
IdleThresholdMs == 2000   \* the idle threshold of detectIdle (line 395)

\* a pause longer than the idle threshold
LongPauseMs == IdleThresholdMs + TickMs
MaxEvents == 3        \* capture events of one session
MaxExtractions == 2   \* calls of crypto.randomUUID()

SignUpKeys == {"a", "Backspace"}

\* pointer positions; every distance between two of them is a whole number
MousePositions == {<<0, 0>>, <<3, 4>>}

ScrollYs == {0, 100}

NoPos == <<>>

\* trackingState as useRef creates it (lines 80-107)
NewTrackingState(y, now) ==
  [keyDownTimes |-> [k \in SignUpKeys |-> Null],
   dwellTimes |-> <<>>,
   flightTimes |-> <<>>,
   lastKeyDownTime |-> Null,
   backspaceCount |-> 0,
   totalKeystrokes |-> 0,
   copyPasteUsed |-> FALSE,
   lastMousePos |-> NoPos,
   lastMouseTime |-> Null,
   totalMouseDistance |-> IntN(0),
   microCorrections |-> 0,
   mouseVelocities |-> <<>>,
   curvatureSamples |-> <<>>,
   lastScrollTime |-> Null,
   lastScrollY |-> y,
   scrollVelocities |-> <<>>,
   firstInteractionTime |-> Null,
   lastEventTime |-> now,
   idleTimeTotal |-> 0,
   fingerprintHash |-> "",
   screenResolution |-> "1920x1080"]

\* the first line of handleKeyDown and of handleMouseMove
FirstInteraction(s, now) ==
  IF Falsy(s.firstInteractionTime)
  THEN [s EXCEPT !.firstInteractionTime = IntN(now)]
  ELSE s

\* a keydown handler that measures the flight from the last event of any kind
handleKeyDownPage_FromLastEvent(s, key, now) ==
  LET s1 == FirstInteraction(s, now)
  IN  [s1 EXCEPT
         !.totalKeystrokes = @ + 1,
         !.backspaceCount = IF key = "Backspace" THEN @ + 1 ELSE @,
         !.keyDownTimes[key] = IntN(now),
         !.flightTimes = IF ~s.lastKeyDownTime.null
                         THEN Append(@, SubN(IntN(now), IntN(s.lastEventTime)))
                         ELSE @,
         !.lastKeyDownTime = IntN(now),
         !.lastEventTime = now]

\* handleKeyDown (lines 332-342); the calls of performance.now() in one
\* handler fall in the same millisecond
handleKeyDownPage(s, key, now) ==
  LET s1 == FirstInteraction(s, now)
  IN  [s1 EXCEPT
         !.totalKeystrokes = @ + 1,
         !.backspaceCount = IF key = "Backspace" THEN @ + 1 ELSE @,
         !.keyDownTimes[key] = IntN(now),
         !.flightTimes = IF ~s.lastKeyDownTime.null
                         THEN Append(@, SubN(IntN(now), s.lastKeyDownTime))
                         ELSE @,
         !.lastKeyDownTime = IntN(now),
         !.lastEventTime = now]

\* a keyup handler that keeps the key-down time it has used
handleKeyUp_KeepsDown(s, key, now) ==
  LET downTime == s.keyDownTimes[key]
  IN  IF ~Falsy(downTime)
      THEN [s EXCEPT !.dwellTimes = Append(@, SubN(IntN(now), downTime)),
                     !.lastEventTime = now]
      ELSE [s EXCEPT !.lastEventTime = now]

\* handleKeyUp (lines 344-351)
handleKeyUp(s, key, now) ==
  LET downTime == s.keyDownTimes[key]
  IN  IF ~Falsy(downTime)
      THEN [s EXCEPT !.dwellTimes = Append(@, SubN(IntN(now), downTime)),
                     !.keyDownTimes[key] = Null,
                     !.lastEventTime = now]
      ELSE [s EXCEPT !.lastEventTime = now]

\* handlePaste, handleCopy (lines 353-354)
handlePaste(s) == [s EXCEPT !.copyPasteUsed = TRUE]

\* a copy handler that records nothing
handleCopy_Noop(s) == s

handleCopy(s) == [s EXCEPT !.copyPasteUsed = TRUE]

\* handleMouseMove (lines 356-378)
handleMouseMove(s, pos, now) ==
  LET s1 == FirstInteraction(s, now)
      dx == pos[1] - s.lastMousePos[1]
      dy == pos[2] - s.lastMousePos[2]
      dt == SubN(IntN(now), s.lastMouseTime)
      dist == SqrtN(IntN(dx * dx + dy * dy))
      s2 == IF s.lastMousePos # NoPos
            THEN [s1 EXCEPT
                    !.totalMouseDistance = AddN(@, dist),
                    !.microCorrections = IF dist.n < 2 * dist.d THEN @ + 1 ELSE @,
                    !.mouseVelocities = IF dt.n > 0
                                        THEN Append(@, DivN(dist, dt)) ELSE @,
                    !.curvatureSamples =
                       Append(@, [actual |-> dist,
                                  straight |-> IntN(Abs(dx) + Abs(dy))])]
            ELSE s1
  IN  [s2 EXCEPT !.lastMousePos = pos,
                 !.lastMouseTime = IntN(now),
                 !.lastEventTime = now]

\* handleScroll (lines 380-391); y is window.scrollY
handleScroll(s, y, now) ==
  LET dy == Abs(y - s.lastScrollY)
      last == IF Falsy(s.lastScrollTime) THEN IntN(now) ELSE s.lastScrollTime
      dt == SubN(IntN(now), last)
  IN  [s EXCEPT !.scrollVelocities = IF dt.n > 0
                                     THEN Append(@, DivN(IntN(dy), dt)) ELSE @,
                !.lastScrollTime = IntN(now),
                !.lastScrollY = y,
                !.lastEventTime = now]

\* a reset that keeps the dwell and flight samples
resetTrackingState_KeepsSamples(s, y, now) ==
  [NewTrackingState(y, now) EXCEPT
     !.fingerprintHash = s.fingerprintHash,
     !.screenResolution = s.screenResolution,
     !.dwellTimes = s.dwellTimes,
     !.flightTimes = s.flightTimes]

\* resetTrackingState (lines 304-326): the device fields are kept
resetTrackingState(s, y, now) ==
  [NewTrackingState(y, now) EXCEPT
     !.fingerprintHash = s.fingerprintHash,
     !.screenResolution = s.screenResolution]

\* the SHA-256 digest of the device description, a constant of the device
FingerprintHash == "sha256"

\* generateFingerprint (lines 112-133)
generateFingerprint(s) == [s EXCEPT !.fingerprintHash = FingerprintHash]

\* collectMHacksData after its await (lines 138-179), for the tracking state
\* s, pageLoadTime.current plt, performance.now() now and the id uuid that
\* crypto.randomUUID() returns; the fields that only describe the browser
\* (user_agent, device_os, timezone, gpu, ...) are left out, and raw_json
\* holds the arrays as they are when they are read
collectMHacksData(s, plt, now, uuid) ==
  LET duration == now - plt
  IN  [session_id |-> uuid,
       dwell_time_mean_ms |-> avg(s.dwellTimes),
       dwell_time_std_ms |-> std(s.dwellTimes),
       flight_time_mean_ms |-> avg(s.flightTimes),
       typing_speed_cpm |-> typingSpeed(s.totalKeystrokes, duration),
       backspace_rate |-> DivN(IntN(s.backspaceCount),
                               MaxN(IntN(s.totalKeystrokes), IntN(1))),
       copy_paste_used |-> s.copyPasteUsed,
       avg_velocity_px_ms |-> avg(s.mouseVelocities),
       path_curvature_ratio |-> curvatureRatio(s.curvatureSamples),
       click_precision_px |-> Null,
       micro_corrections_per_movement |-> s.microCorrections,
       total_distance_px |-> s.totalMouseDistance,
       mouse_idle_time_ms |-> s.idleTimeTotal,
       scroll_velocity_px_s |-> MulN(avg(s.scrollVelocities), IntN(1000)),
       fingerprint_hash |-> s.fingerprintHash,
       screen_resolution |-> s.screenResolution,
       form_completion_time_ms |-> IntN(duration),
       time_to_first_interaction_ms |->
         IF ~Falsy(s.firstInteractionTime)
         THEN SubN(s.firstInteractionTime, IntN(plt))
         ELSE Null,
       idle_time_percentage |-> DivN(IntN(s.idleTimeTotal), IntN(duration)),
       raw_json |-> [dwellTimes |-> s.dwellTimes,
                     flightTimes |-> s.flightTimes,
                     mouseVelocities |-> s.mouseVelocities,
                     curvatureSamples |-> s.curvatureSamples,
                     scrollVelocities |-> s.scrollVelocities]]

NoDtype == "null"

\* getDtypeForStep (lines 31-45)
getDtypeForStep(st, sec) ==
  IF st = 2 THEN "account"
  ELSE IF st = 3
       THEN CASE sec = 1 -> "childhood"
              [] sec = 2 -> "nickname"
              [] sec = 3 -> "concert"
              [] sec = 4 -> "street"
              [] sec = 5 -> "travelling"
              [] sec = 6 -> "vehicle"
              [] OTHER -> NoDtype
       ELSE NoDtype

\* the record collectBehavioralDataForStep builds from the vector d
\* (lines 200-232); c holds the step and securityStep of the render whose
\* handler called it
RecordOf(d, c) ==
  d @@ [dtype |-> getDtypeForStep(c.step, c.securityStep),
        questionNumber |-> IF c.step = 2 THEN Null ELSE IntN(c.securityStep),
        user_id |-> Null]

(***************************************************************************)
(* Capture: the listeners registered on mount (lines 401-406).             *)
(***************************************************************************)

signupRest == <<pageVars, extensionVars, storeVars>>

Handled(s) ==
  /\ trackingState' = s
  /\ sessionEvents' = sessionEvents + 1
  /\ totalEvents' = totalEvents + 1
  /\ lastCapture' = <<perfNow>>
  /\ idleGaps' = IF lastCapture # <<>> /\ perfNow - lastCapture[1] > IdleThresholdMs
                 THEN idleGaps + (perfNow - lastCapture[1])
                 ELSE idleGaps
  /\ sessionPages' = sessionPages \cup {<<step, securityStep>>}
  /\ UNCHANGED <<pageLoadTime, wizardVars, perfNow, uuids, data, signupRest>>

KeyDown(k) ==
  /\ Handled(handleKeyDownPage(trackingState, k, perfNow))
  /\ keyLog' = Append(keyLog, [type |-> "keydown", key |-> k, t |-> perfNow])
  /\ UNCHANGED <<scrollY, mouseLog, clipboard>>

KeyUp(k) ==
  /\ Handled(handleKeyUp(trackingState, k, perfNow))
  /\ keyLog' = Append(keyLog, [type |-> "keyup", key |-> k, t |-> perfNow])
  /\ UNCHANGED <<scrollY, mouseLog, clipboard>>

Paste ==
  /\ Handled(handlePaste(trackingState))
  /\ clipboard' = TRUE
  /\ UNCHANGED <<scrollY, keyLog, mouseLog>>

Copy ==
  /\ Handled(handleCopy(trackingState))
  /\ clipboard' = TRUE
  /\ UNCHANGED <<scrollY, keyLog, mouseLog>>

MouseMove(pos) ==
  /\ Handled(handleMouseMove(trackingState, pos, perfNow))
  /\ mouseLog' = Append(mouseLog, pos)
  /\ UNCHANGED <<scrollY, keyLog, clipboard>>

\* the browser scrolls the window to y and dispatches the scroll event
Scroll(y) ==
  Handled(handleScroll(trackingState, y, perfNow))
    /\ scrollY' = y /\ UNCHANGED <<keyLog, mouseLog, clipboard>>

PageEvent ==
  \/ \E k \in SignUpKeys : KeyDown(k) \/ KeyUp(k)
  \/ Paste
  \/ Copy
  \/ \E pos \in MousePositions : MouseMove(pos)
  \/ \E y \in ScrollYs : Scroll(y)

\* the user pauses, once, for longer than the idle threshold
Pause ==
  /\ perfNow < LongPauseMs
  /\ perfNow' = perfNow + LongPauseMs
  /\ UNCHANGED <<captureVars, wizardVars, uuids, data, signupRest>>

\* time passes
Elapse ==
  /\ perfNow < MaxNow * TickMs
  /\ perfNow' = perfNow + TickMs
  /\ UNCHANGED <<captureVars, wizardVars, uuids, data, signupRest>>

(***************************************************************************)
(* The extractor as a function of the captured session: the handlers build *)
(* a session, then collectMHacksData and resetTrackingState are applied    *)
(* to it.                                                                  *)
(***************************************************************************)

\* a capture event of the session under construction
Capture ==
  /\ totalEvents < MaxEvents
  /\ data = <<>>
  /\ PageEvent

\* an extraction that consumes the session it reads
Extract_Consuming ==
  /\ uuids < MaxExtractions
  /\ LET s == generateFingerprint(trackingState)
     IN  /\ trackingState' = resetTrackingState(s, scrollY, perfNow)
         /\ data' = Append(data, collectMHacksData(s, pageLoadTime, perfNow, uuids + 1))
  /\ uuids' = uuids + 1
  /\ UNCHANGED <<pageLoadTime, scrollY, sessionEvents, totalEvents, keyLog,
                 mouseLog, lastCapture, idleGaps, clipboard, sessionPages,
                 wizardVars,
                 perfNow, signupRest>>

\* collectMHacksData, its fingerprint included
Extract ==
  /\ uuids < MaxExtractions
  /\ LET s == generateFingerprint(trackingState)
     IN  /\ trackingState' = s
         /\ data' = Append(data, collectMHacksData(s, pageLoadTime, perfNow, uuids + 1))
  /\ uuids' = uuids + 1
  /\ UNCHANGED <<pageLoadTime, scrollY, sessionEvents, totalEvents, keyLog,
                 mouseLog, lastCapture, idleGaps, clipboard, sessionPages,
                 wizardVars,
                 perfNow, signupRest>>

\* resetTrackingState, once the session has been extracted
Reset ==
  /\ data # <<>>
  /\ trackingState' = resetTrackingState(trackingState, scrollY, perfNow)
  /\ pageLoadTime' = perfNow
  /\ sessionEvents' = 0
  /\ keyLog' = <<>>
  /\ mouseLog' = <<>>
  /\ lastCapture' = <<>>
  /\ idleGaps' = 0
  /\ clipboard' = FALSE
  /\ sessionPages' = {}
  /\ data' = <<>>
  /\ UNCHANGED <<scrollY, totalEvents, wizardVars, perfNow, uuids, signupRest>>

(***************************************************************************)
(* The wizard (lines 418-541, 887-926).                                    *)
(***************************************************************************)

MaxInteractions == 1   \* capture events while the wizard runs
MaxClicks == 4         \* clicks on Next and Previous

\* useState initial values of isSubmitting, submitError (whether it is a
\* non-empty message) and submitSuccess (lines 74-76); pc is the await
\* handleSubmit waits at, timers the pending setTimeout of line 503,
\* completed the calls of onSignUpComplete; accountCreated and saveFailed
\* record what the running submission has met
NewSubmit ==
  [pc |-> "idle", isSubmitting |-> FALSE, submitError |-> FALSE,
   submitSuccess |-> FALSE, timers |-> 0, completed |-> 0,
   accountCreated |-> FALSE, saveFailed |-> FALSE]

\* the JavaScript value null where a baseline is expected
NoBaseline == [null |-> TRUE, value |-> EmptyStorage]

\* no loadBaseline call yet
NoLoad == [state |-> "none", value |-> NoBaseline]

NewFormData == [username |-> FALSE, securityQ |-> [q \in 1..6 |-> FALSE]]

\* a capture event while the wizard runs
Interact ==
  /\ totalEvents < MaxInteractions
  /\ PageEvent

\* handleInputChange (lines 418-421) of the fields the wizard tests; filled
\* says whether the new value is non-empty
handleInputChangePage(f, field, filled) ==
  IF field = 0 THEN [f EXCEPT !.username = filled]
  ELSE [f EXCEPT !.securityQ[field] = filled]

\* the field rendered at the step: 0 is username, q is securityQ<q>
RenderedFields ==
  IF step = 2 THEN {0}
  ELSE IF step = 3 THEN {securityStep} \cap (1..6)
  ELSE {}

HandleInputChange(field, filled) ==
  /\ field \in RenderedFields
  /\ formData' = handleInputChangePage(formData, field, filled)
  /\ UNCHANGED <<step, securityStep, pending, collectedBehavioralData, clicks,
                 displayed,
                 captureVars, perfNow, uuids, data, signupRest>>

\* whether nextStep, rendered with step st, securityStep sec and form f,
\* awaits collectBehavioralDataForStep (lines 516-525)
Collects(st, sec, f) ==
  \/ st = 2 /\ f.username
  \/ st = 3 /\ sec < 6 /\ f.securityQ[sec] /\ f.username

\* the question a render with step st and securityStep sec shows
Shown(st, sec) == IF st = 3 THEN {sec} ELSE {}

\* the state updates that end nextStep (lines 521-529), for the render c
\* whose handler runs
Advance(c) ==
  /\ IF c.step = 3 /\ c.securityStep < 6
     THEN securityStep' = securityStep + 1 /\ UNCHANGED step
     ELSE step' = (IF step + 1 < 3 THEN step + 1 ELSE 3) /\ UNCHANGED securityStep
  /\ displayed' = displayed \cup Shown(step', securityStep')

\* a click on Next: nextStep up to its await, or to its end when it does
\* not collect
NextStep ==
  /\ step < 3 \/ (step = 3 /\ securityStep < 6)
  /\ ~submit.isSubmitting
  /\ clicks < MaxClicks
  /\ clicks' = clicks + 1
  /\ LET c == [step |-> step, securityStep |-> securityStep]
     IN  IF Collects(step, securityStep, formData)
         THEN /\ uuids + Len(pending) < MaxExtractions
              /\ pending' = Append(pending, c)
              /\ UNCHANGED <<step, securityStep, displayed>>
         ELSE /\ Advance(c)
              /\ UNCHANGED pending
  /\ UNCHANGED <<formData, collectedBehavioralData, captureVars, perfNow,
                 uuids, data, signupRest>>

Without(q, i) == [j \in 1..(Len(q) - 1) |-> IF j < i THEN q[j] ELSE q[j + 1]]

\* crypto.subtle.digest resolves for the i-th waiting collection: the rest
\* of generateFingerprint, collectMHacksData, collectBehavioralDataForStep
\* and nextStep run without interruption
DigestResolves(i) ==
  LET c == pending[i]
      s == generateFingerprint(trackingState)
      d == collectMHacksData(s, pageLoadTime, perfNow, uuids + 1)
  IN  /\ uuids' = uuids + 1
      /\ collectedBehavioralData' = Append(collectedBehavioralData, RecordOf(d, c))
      /\ trackingState' = resetTrackingState(s, scrollY, perfNow)
      /\ pageLoadTime' = perfNow
      /\ sessionEvents' = 0
      /\ keyLog' = <<>>
      /\ mouseLog' = <<>>
      /\ lastCapture' = <<>>
      /\ idleGaps' = 0
      /\ clipboard' = FALSE
      /\ sessionPages' = {}
      /\ pending' = Without(pending, i)
      /\ Advance(c)
      /\ UNCHANGED <<formData, clicks, scrollY, totalEvents, perfNow, data,
                     signupRest>>

\* the fingerprint throws: collectBehavioralDataForStep catches the error
\* (lines 239-241) and nextStep goes on
DigestRejects(i) ==
  LET c == pending[i]
  IN  /\ pending' = Without(pending, i)
      /\ Advance(c)
      /\ UNCHANGED <<formData, collectedBehavioralData, clicks, captureVars,
                     perfNow, uuids, data, signupRest>>

\* a click on Previous: prevStep (lines 532-541)
PrevStep ==
  /\ clicks < MaxClicks
  /\ clicks' = clicks + 1
  /\ IF step = 3 /\ securityStep > 1
     THEN securityStep' = securityStep - 1 /\ UNCHANGED step
     ELSE /\ step' = (IF step - 1 > 1 THEN step - 1 ELSE 1)
          /\ securityStep' = (IF step = 3 THEN 6 ELSE securityStep)
  /\ displayed' = displayed \cup Shown(step', securityStep')
  /\ UNCHANGED <<formData, pending, collectedBehavioralData, captureVars,
                 perfNow, uuids, data, signupRest>>

(***************************************************************************)
(* handleSubmit (lines 423-512) and saveAllBehavioralData (lines 245-301). *)
(* Each await is a position of the handler; the store answers with data,   *)
(* with an error, or by throwing.                                          *)
(***************************************************************************)
StoreOutcomes == {"ok", "error", "throws"}

submitRest == <<pageVars, extensionVars, baseline, loads>>

\* setSubmitSuccess(true) and the setTimeout of lines 490-505
Succeeds(sub) ==
  [sub EXCEPT !.pc = "done", !.submitSuccess = TRUE, !.timers = @ + 1]

\* setSubmitError(message); setIsSubmitting(false) (lines 459-461, 471-474,
\* 507-511)
Fails(sub) ==
  [sub EXCEPT !.pc = "idle", !.submitError = TRUE, !.isSubmitting = FALSE]

\* a plausible slip: the try/catch around saveAllBehavioralData left out, so
\* that its error reaches the catch of handleSubmit
afterSave_Rethrown(sub, records, outcome) ==
  IF outcome = "ok"
  THEN [submit |-> Succeeds(sub), records |-> <<>>]
  ELSE [submit |-> Fails([sub EXCEPT !.saveFailed = TRUE]),
        records |-> records]

\* the answer of the insert into mhacksdata (lines 286-300) and the rest of
\* handleSubmit (lines 485-505): the records are cleared on success only,
\* and an error, returned or thrown, is caught on line 487
afterSave(sub, records, outcome) ==
  IF outcome = "ok"
  THEN [submit |-> Succeeds(sub), records |-> <<>>]
  ELSE [submit |-> Succeeds([sub EXCEPT !.saveFailed = TRUE]),
        records |-> records]

\* the render the submit button belongs to
SubmitRender == [step |-> 3, securityStep |-> 6]

\* a click on Create Account, the button rendered when Next is not
\* (lines 897, 907-909): handleSubmit up to its first await;
\* collectBehavioralDataForStep returns at once when the page has no dtype
\* (lines 185-189)
Submit ==
  /\ ~(step < 3 \/ (step = 3 /\ securityStep < 6))
  /\ ~submit.isSubmitting /\ ~submit.submitSuccess
  /\ LET collects == /\ formData.username /\ formData.securityQ[6]
                     /\ getDtypeForStep(step, securityStep) # NoDtype
     IN  /\ collects => uuids + Len(pending) < MaxExtractions
         /\ submit' = [submit EXCEPT
                         !.pc = IF collects THEN "collecting" ELSE "selecting",
                         !.isSubmitting = TRUE, !.submitError = FALSE,
                         !.submitSuccess = FALSE, !.accountCreated = FALSE,
                         !.saveFailed = FALSE]
  /\ UNCHANGED <<captureVars, wizardVars, perfNow, uuids, data, submitRest>>

\* crypto.subtle.digest resolves for the collection of handleSubmit
\* (lines 431-433): the record of question 6 is pushed and tracking is reset
SubmitDigestResolves ==
  LET s == generateFingerprint(trackingState)
      d == collectMHacksData(s, pageLoadTime, perfNow, uuids + 1)
  IN  /\ submit.pc = "collecting"
      /\ submit' = [submit EXCEPT !.pc = "selecting"]
      /\ uuids' = uuids + 1
      /\ collectedBehavioralData'
           = Append(collectedBehavioralData, RecordOf(d, SubmitRender))
      /\ trackingState' = resetTrackingState(s, scrollY, perfNow)
      /\ pageLoadTime' = perfNow
      /\ sessionEvents' = 0
      /\ keyLog' = <<>>
      /\ mouseLog' = <<>>
      /\ lastCapture' = <<>>
      /\ idleGaps' = 0
      /\ clipboard' = FALSE
      /\ sessionPages' = {}
      /\ UNCHANGED <<step, securityStep, formData, pending, clicks, displayed,
                     scrollY,
                     totalEvents, perfNow, data, submitRest>>

\* the fingerprint throws: collectBehavioralDataForStep catches the error
\* (lines 239-241) and handleSubmit goes on
SubmitDigestRejects ==
  /\ submit.pc = "collecting"
  /\ submit' = [submit EXCEPT !.pc = "selecting"]
  /\ UNCHANGED <<captureVars, wizardVars, perfNow, uuids, data, submitRest>>

\* the answer of the select of the username (lines 450-462): no such user,
\* an existing user, or an exception
SelectReturns(outcome) ==
  /\ submit.pc = "selecting"
  /\ submit' = IF outcome = "ok" THEN [submit EXCEPT !.pc = "inserting"]
               ELSE Fails(submit)
  /\ UNCHANGED <<captureVars, wizardVars, perfNow, uuids, data, submitRest>>

\* an insert whose error is not checked before the records are saved
InsertReturns_Unchecked(outcome) ==
  /\ submit.pc = "inserting"
  /\ submit' =
       IF collectedBehavioralData = <<>>
       THEN Succeeds([submit EXCEPT !.accountCreated = (outcome = "ok")])
       ELSE [submit EXCEPT !.pc = "saving", !.accountCreated = (outcome = "ok")]
  /\ UNCHANGED <<captureVars, wizardVars, perfNow, uuids, data, submitRest>>

\* the answer of the insert into madhacks (lines 465-489): the account, an
\* error, or an exception; with the account and no record to save,
\* saveAllBehavioralData returns at once (lines 246-249)
InsertReturns(outcome) ==
  /\ submit.pc = "inserting"
  /\ submit' =
       IF outcome # "ok" THEN Fails(submit)
       ELSE IF collectedBehavioralData = <<>>
       THEN Succeeds([submit EXCEPT !.accountCreated = TRUE])
       ELSE [submit EXCEPT !.pc = "saving", !.accountCreated = TRUE]
  /\ UNCHANGED <<captureVars, wizardVars, perfNow, uuids, data, submitRest>>

\* the answer of the insert into mhacksdata
SaveReturns(outcome) ==
  /\ submit.pc = "saving"
  /\ LET r == afterSave(submit, collectedBehavioralData, outcome)
     IN  /\ submit' = r.submit
         /\ collectedBehavioralData' = r.records
  /\ UNCHANGED <<step, securityStep, formData, pending, clicks, displayed,
                 captureVars,
                 perfNow, uuids, data, submitRest>>

\* the timeout of line 503 fires: onSignUpComplete(userData)
CompletionTimer ==
  /\ submit.timers > 0
  /\ submit' = [submit EXCEPT !.timers = @ - 1, !.completed = @ + 1]
  /\ UNCHANGED <<captureVars, wizardVars, perfNow, uuids, data, submitRest>>

\* result.behavioralBaseline || null (part_000 line 109)
LoadResult(st) ==
  IF "behavioralBaseline" \in DOMAIN st
  THEN [null |-> FALSE, value |-> st.behavioralBaseline]
  ELSE NoBaseline

\* loadBaseline (part_000 lines 106-108): the promise and the get
LoadBaseline ==
  /\ realm = "content"
  /\ loads.state # "pending"
  /\ loads' = [state |-> "pending", value |-> NoBaseline]
  /\ UNCHANGED <<pageVars, extensionVars, captureVars, wizardVars, perfNow,
                 uuids, data, submit, baseline>>

\* the callback of the get (part_000 lines 108-111)
BaselineLoaded ==
  /\ realm = "content"
  /\ loads.state = "pending"
  /\ baseline' = LoadResult(storage)
  /\ loads' = [state |-> "resolved", value |-> LoadResult(storage)]
  /\ UNCHANGED <<pageVars, extensionVars, captureVars, wizardVars, perfNow,
                 uuids, data, submit>>

InitSignUp ==
  /\ perfNow = 0
  /\ scrollY = 0
  /\ pageLoadTime = 0
  /\ trackingState = NewTrackingState(0, 0)
  /\ uuids = 0
  /\ data = <<>>
  /\ step = 1
  /\ securityStep = 1
  /\ formData = NewFormData
  /\ pending = <<>>
  /\ collectedBehavioralData = <<>>
  /\ sessionEvents = 0
  /\ totalEvents = 0
  /\ keyLog = <<>>
  /\ mouseLog = <<>>
  /\ lastCapture = <<>>
  /\ idleGaps = 0
  /\ clipboard = FALSE
  /\ sessionPages = {}
  /\ clicks = 0
  /\ displayed = {}
  /\ submit = NewSubmit
  /\ baseline = NoBaseline
  /\ loads = NoLoad

\* The wizard on its last page, as a run of Next clicks leaves it: without a
\* username nothing was collected; with one, the record of step 2 was
\* pushed at time 0, or its fingerprint threw and there is no record.
StepTwoRecord ==
  RecordOf(collectMHacksData(generateFingerprint(NewTrackingState(0, 0)),
                             0, 0, 1),
           [step |-> 2, securityStep |-> 1])

LastPages ==
  {[formData |-> NewFormData, records |-> <<>>,
    trackingState |-> NewTrackingState(0, 0)],
   [formData |-> [NewFormData EXCEPT !.username = TRUE], records |-> <<>>,
    trackingState |-> NewTrackingState(0, 0)],
   [formData |-> [NewFormData EXCEPT !.username = TRUE],
    records |-> <<StepTwoRecord>>,
    trackingState |->
      resetTrackingState(generateFingerprint(NewTrackingState(0, 0)), 0, 0)]}

\* a storage in which the popup has saved a baseline of two keystrokes
StoredSample ==
  StorageSet(EmptyStorage,
             ItemsOf(<<[key |-> "4", timestamp |-> 0, duration |-> 0],
                       [key |-> "5", timestamp |-> 0, duration |-> 0]>>, 0))

NextStore ==
  \/ Submit
  \/ SubmitDigestResolves
  \/ SubmitDigestRejects
  \/ \E outcome \in StoreOutcomes :
       SelectReturns(outcome) \/ InsertReturns(outcome) \/ SaveReturns(outcome)
  \/ CompletionTimer
  \/ \E field \in 0..6, filled \in BOOLEAN : HandleInputChange(field, filled)
  \/ PrevStep
  \/ NextStep
  \/ \E i \in 1..Len(pending) : DigestResolves(i) \/ DigestRejects(i)
  \/ LoadBaseline
  \/ BaselineLoaded

NextExtractor == Capture \/ Elapse \/ Extract \/ Reset

\* key events while the collections run: one more than the interactions of
\* the wizard, since a dwell sample takes a keydown and a keyup
MaxTyped == MaxInteractions + 1

\* the user types into the field of the page
Typing ==
  /\ totalEvents < MaxTyped
  /\ KeyDown("a") \/ KeyUp("a")

\* the collections of the last two questions: typing, Next clicked once or
\* twice, Create Account, and the fingerprint digests they wait for
NextCollect ==
  \/ Typing
  \/ Elapse
  \/ \E field \in 5..6 : HandleInputChange(field, TRUE)
  \/ NextStep
  \/ \E i \in 1..Len(pending) : DigestResolves(i) \/ DigestRejects(i)
  \/ Submit
  \/ SubmitDigestResolves
  \/ SubmitDigestRejects

NextIdle == Capture \/ Pause \/ Extract \/ Reset

NextSignUp ==
  \/ Interact
  \/ Elapse
  \/ \E field \in 0..6, filled \in BOOLEAN : HandleInputChange(field, filled)
  \/ NextStep
  \/ PrevStep
  \/ \E i \in 1..Len(pending) : DigestResolves(i) \/ DigestRejects(i)

(***************************************************************************)
(*     TRACKING HOOK  (frontend/src/hooks/useBehavioralTracking.js)        *)
(***************************************************************************)

\* events other than paste, and paste events, of the sessions explored
MaxHookEvents == 2
MaxPastes == 102

\* clientX, clientY of the pointer events and window.scrollY of the scrolls
HookPositions == {<<3, 4>>}
HookScrollYs == {100}

\* e.target.name || e.target.id || 'unknown' of the paste targets
HookFields == {"username"}

\* arr.slice(-n), n > 0
LastN(arr, n) ==
  IF Len(arr) <= n THEN arr ELSE SubSeq(arr, Len(arr) - n + 1, Len(arr))

\* useState initial value (useBehavioralTracking.js lines 5-14)
NewBehaviorData(now) ==
  [mouseMovements |-> <<>>, keystrokes |-> <<>>, typingSpeeds |-> <<>>,
   pasteEvents |-> <<>>, clickPatterns |-> <<>>, scrollEvents |-> <<>>,
   startTime |-> now]

\* handleMouseMove of the hook (lines 18-27)
trackMouseMove(prev, pos, now) ==
  [prev EXCEPT !.mouseMovements =
     Append(LastN(@, 100),
            [x |-> pos[1], y |-> pos[2], time |-> now - prev.startTime])]

\* handleKeyDown of the hook (lines 30-46); startTime never changes, so the
\* value the closure holds is the current one
trackKeyDown(prev, now) ==
  LET currentTime == now - prev.startTime
      newKeystrokes == Append(prev.keystrokes, currentTime)
  IN  IF Len(newKeystrokes) >= 2
      THEN [prev EXCEPT
              !.keystrokes = LastN(newKeystrokes, 50),
              !.typingSpeeds =
                 Append(LastN(@, 30),
                        currentTime - newKeystrokes[Len(newKeystrokes) - 1])]
      ELSE [prev EXCEPT !.keystrokes = LastN(newKeystrokes, 50)]

\* handlePaste of the hook (lines 49-58)
trackPaste(prev, field, now) ==
  [prev EXCEPT !.pasteEvents =
     Append(@, [field |-> field, time |-> now - prev.startTime])]

\* handleClick of the hook (lines 61-70)
trackClick(prev, pos, now) ==
  [prev EXCEPT !.clickPatterns =
     Append(LastN(@, 30),
            [x |-> pos[1], y |-> pos[2], time |-> now - prev.startTime])]

\* handleScroll of the hook (lines 73-81)
trackScroll(prev, y, now) ==
  [prev EXCEPT !.scrollEvents =
     Append(LastN(@, 20), [scrollY |-> y, time |-> now - prev.startTime])]

hookRest == <<scoreVars, extensionVars, signupVars>>

\* the events other than paste delivered so far (no buffer is full yet)
HookEvents ==
  Len(behaviorData.mouseMovements) + Len(behaviorData.keystrokes)
    + Len(behaviorData.clickPatterns) + Len(behaviorData.scrollEvents)

HookMouseMove(pos) ==
  /\ HookEvents < MaxHookEvents
  /\ behaviorData' = trackMouseMove(behaviorData, pos, dateNow)
  /\ UNCHANGED hookRest

HookKeyDown ==
  /\ HookEvents < MaxHookEvents
  /\ behaviorData' = trackKeyDown(behaviorData, dateNow)
  /\ UNCHANGED hookRest

HookPaste(field) ==
  /\ Len(behaviorData.pasteEvents) < MaxPastes
  /\ behaviorData' = trackPaste(behaviorData, field, dateNow)
  /\ UNCHANGED hookRest

HookClick(pos) ==
  /\ HookEvents < MaxHookEvents
  /\ behaviorData' = trackClick(behaviorData, pos, dateNow)
  /\ UNCHANGED hookRest

HookScroll(y) ==
  /\ HookEvents < MaxHookEvents
  /\ behaviorData' = trackScroll(behaviorData, y, dateNow)
  /\ UNCHANGED hookRest

NextHook ==
  \/ \E pos \in HookPositions : HookMouseMove(pos) \/ HookClick(pos)
  \/ HookKeyDown
  \/ \E field \in HookFields : HookPaste(field)
  \/ \E y \in HookScrollYs : HookScroll(y)
  \/ AdvanceClock

(***************************************************************************)
(* Actions of the scorer                                                   *)
(***************************************************************************)

\* One firing of the setInterval callback (App.jsx lines 35-86).
Tick ==
  \E d \in GenSamples :
    /\ newData' = d
    /\ risk' = Risk(d)
    /\ fraudData' = Assessed(d)
    /\ UNCHANGED <<behaviorData, trackerVars, popupVars, dateNow, realm, signupVars>>

\* The scoring block of the callback applied to the input newData
\* (App.jsx lines 62-85).
ApplyScore ==
  /\ risk' = Risk(newData)
  /\ fraudData' = Assessed(newData)
  /\ UNCHANGED <<newData, behaviorData, trackerVars, popupVars, dateNow, realm,
                 signupVars>>

InitScore ==
  /\ newData = FeaturesOf(InitialFraudData)
  /\ risk = 0
  /\ fraudData = InitialFraudData
  /\ behaviorData = NewBehaviorData(0)

Init == InitScore /\ InitTracker /\ InitPopup /\ realm = "content" /\ InitSignUp

\* the extension: its content script and its popup are two programs, each
\* with its own JavaScript state; a behaviour follows one of them
InitExtension ==
  /\ InitScore /\ InitTracker /\ InitPopup /\ realm \in {"content", "popup"}
  /\ InitSignUp

NextExtension == NextTracker \/ NextPopup

InitStore ==
  /\ InitScore /\ InitTracker
  /\ onboarding = NewOnboarding /\ stepTimers = 0 /\ app = NewApp
  /\ storage \in {EmptyStorage, StoredSample}
  /\ realm = "content"
  /\ \E w \in LastPages :
       /\ formData = w.formData
       /\ collectedBehavioralData = w.records
       /\ trackingState = w.trackingState
       /\ uuids = Len(w.records)
  /\ step = 3 /\ securityStep = 6 /\ displayed = 1..6
  /\ perfNow = 0 /\ scrollY = 0 /\ pageLoadTime = 0
  /\ data = <<>> /\ pending = <<>>
  /\ sessionEvents = 0 /\ totalEvents = 0
  /\ keyLog = <<>> /\ mouseLog = <<>> /\ lastCapture = <<>>
  /\ idleGaps = 0 /\ clicks = 0
  /\ clipboard = FALSE /\ sessionPages = {}
  /\ submit = NewSubmit /\ baseline = NoBaseline /\ loads = NoLoad

\* question 5 of the wizard, reached by Next clicks with a username and
\* every answer empty
InitCollect ==
  /\ InitScore /\ InitTracker /\ InitPopup /\ realm = "content"
  /\ \E w \in LastPages :
       /\ w.formData.username
       /\ formData = w.formData
       /\ collectedBehavioralData = w.records
       /\ trackingState = w.trackingState
       /\ uuids = Len(w.records)
  /\ step = 3 /\ securityStep = 5 /\ displayed = 1..5
  /\ perfNow = 0 /\ scrollY = 0 /\ pageLoadTime = 0
  /\ data = <<>> /\ pending = <<>>
  /\ sessionEvents = 0 /\ totalEvents = 0
  /\ keyLog = <<>> /\ mouseLog = <<>> /\ lastCapture = <<>>
  /\ idleGaps = 0 /\ clicks = 0
  /\ clipboard = FALSE /\ sessionPages = {}
  /\ submit = NewSubmit /\ baseline = NoBaseline /\ loads = NoLoad

InitRule ==
  /\ newData \in RuleSamples \cup FlaggedSamples
  /\ risk = 0
  /\ fraudData = InitialFraudData
  /\ behaviorData = NewBehaviorData(0)
  /\ InitTracker /\ InitPopup /\ realm = "content"
  /\ InitSignUp

SpecExtension == InitExtension /\ [][NextExtension]_vars

\* the extractor of the sign-up page applied to captured sessions
SpecExtractor == Init /\ [][NextExtractor]_vars

\* the extractor applied to sessions with a long pause
SpecIdle == Init /\ [][NextIdle]_vars

\* the sign-up wizard
SpecSignUp == Init /\ [][NextSignUp]_vars

\* the calls to the stores: the submission of the sign-up page and the
\* baseline load of the content script
SpecStore == InitStore /\ [][NextStore]_vars

\* the collections of the sign-up page over typed sessions
SpecCollect == InitCollect /\ [][NextCollect]_vars

\* the tracking hook under a stream of events
SpecHook == Init /\ [][NextHook]_vars

\* the running Data Debug page
SpecTick == Init /\ [][Tick]_vars

\* the rule set as a function of its input
SpecRule == InitRule /\ [][ApplyScore]_vars

(***************************************************************************)
(*                               CLAIMS                                    *)
(***************************************************************************)

C2_ScoreClamped ==
  /\ fraudData.totalRiskScore \in 0..100
  /\ risk <= 100 => fraudData.totalRiskScore = risk
  /\ risk > 100 => fraudData.totalRiskScore = 100

\* an input whose additive total exceeds 100 has been scored
C2_Witness == risk > 100 /\ fraudData.totalRiskScore = 100

\* the keystroke object record(k) adds at the current time
TrackedNow(k) == KeystrokeOf(KeyEvent(k, dateNow), "card", dateNow)

\* C3: startTracking while a session is already active is a no-op: the
\* keystrokes recorded so far in the active session are kept and tracking
\* stays on; only a start after a stop begins a fresh, empty session.
C3_SecondStartIsNoOp ==
  [][(StartTracking /\ phase = "active")
       => (Contents' = Contents /\ tracker'.isTracking)]_vars

\* C4: record (trackKeystroke, Onboarding's handleKeyDown) appends exactly one
\* event at the end of the active session and keeps the earlier events in
\* order; with no active session (before the first start, after a stop) the
\* event is dropped and the recorded pattern is unchanged.
C4_RecordAppendsOrDrops ==
  [][/\ \A k \in Keys :
          TrackKeystroke(k) =>
            IF phase = "active"
            THEN Contents' = Append(Contents, TrackedNow(k))
            ELSE Contents' = Contents
     /\ \A k \in Keys :
          ObKeyDown(k) =>
            IF onboarding.isRecording
            THEN onboarding'.keystrokePattern =
                   Append(onboarding.keystrokePattern,
                          [key |-> k, timestamp |-> dateNow,
                           duration |-> dateNow])
            ELSE onboarding'.keystrokePattern = onboarding.keystrokePattern
    ]_vars

\* two events recorded one after the other in an active session
C4_Witness ==
  /\ phase = "active"
  /\ Len(Contents) = 2
  /\ Contents[1].key = "4" /\ Contents[2].key = "5"

\* the caller got `pattern` after the last stop, and no start came since
HandedAfterStop ==
  phase = "stopped" /\ patternPhase = "stopped" /\ patternFresh

\* C5: stop succeeds in every state and leaves no active session: every
\* record between a stop and the next start is dropped, and getPattern then
\* returns exactly the events recorded between the last start and that
\* stop, with totalKeys their number.
C5_StopEndsSession ==
  /\ [](realm = "content" => ENABLED StopTracking)
  /\ [][StopTracking => ~tracker'.isTracking]_vars
  /\ [](phase = "stopped" => ~tracker.isTracking /\ Contents = session)
  /\ [][\A k \in Keys :
          (TrackKeystroke(k) /\ phase = "stopped") => Contents' = Contents]_vars
  /\ [](HandedAfterStop =>
          PatternContents = session /\ pattern.totalKeys = Len(session))

\* a session of two events was stopped and its pattern obtained
C5_Witness ==
  HandedAfterStop /\ Len(session) = 2 /\ pattern.totalKeys = 2

ReadByExtraction(s) ==
  <<s.dwellTimes, s.flightTimes, s.totalKeystrokes, s.backspaceCount,
    s.copyPasteUsed, s.mouseVelocities, s.curvatureSamples, s.microCorrections,
    s.totalMouseDistance, s.idleTimeTotal, s.scrollVelocities,
    s.fingerprintHash, s.screenResolution, s.firstInteractionTime>>

\* C7: while an extraction has started and has not yet read its feature
\* values (a collection waits for the fingerprint digest), no capture
\* handler changes the tracking state that the extraction reads: every step
\* that leaves the waiting collections as they are leaves those fields as
\* they are.
C7_NoCaptureDuringExtraction ==
  [][(pending # <<>> /\ pending' = pending)
       => ReadByExtraction(trackingState') = ReadByExtraction(trackingState)]_vars

SampleDerived(d) ==
  <<d.dwell_time_mean_ms, d.dwell_time_std_ms, d.flight_time_mean_ms,
    d.backspace_rate, d.copy_paste_used, d.avg_velocity_px_ms,
    d.path_curvature_ratio, d.micro_corrections_per_movement,
    d.total_distance_px, d.mouse_idle_time_ms, d.scroll_velocity_px_s,
    d.time_to_first_interaction_ms, d.raw_json>>

C9_EmptySessionAllNull ==
  \A i \in 1..Len(data) :
    sessionEvents = 0
      => /\ data[i].dwell_time_mean_ms.null
         /\ data[i].dwell_time_std_ms.null
         /\ data[i].flight_time_mean_ms.null
         /\ data[i].avg_velocity_px_ms.null
         /\ data[i].path_curvature_ratio.null
         /\ data[i].scroll_velocity_px_s.null
         /\ ~data[i].copy_paste_used

\* C10: in every extracted vector the mean of an empty sample set is null,
\* and the standard deviation of fewer than 2 dwell samples is null.
C10_TooFewSamplesAreNull ==
  \A i \in 1..Len(data) :
    /\ Len(data[i].raw_json.dwellTimes) = 0 => data[i].dwell_time_mean_ms.null
    /\ Len(data[i].raw_json.flightTimes) = 0 => data[i].flight_time_mean_ms.null
    /\ Len(data[i].raw_json.mouseVelocities) = 0 => data[i].avg_velocity_px_ms.null
    /\ Len(data[i].raw_json.dwellTimes) < 2 => data[i].dwell_time_std_ms.null

\* the key events of the log before position n that have the key of event n
SameKeyBefore(log, n) == {m \in 1..(n - 1) : log[m].key = log[n].key}

\* event n of the log is a keyup whose key is outstanding: the last earlier
\* event of its key is a keydown, at a timestamp other than 0
ClosesKeyDown(log, n) ==
  /\ log[n].type = "keyup"
  /\ SameKeyBefore(log, n) # {}
  /\ LET m == CHOOSE x \in SameKeyBefore(log, n) :
                 \A y \in SameKeyBefore(log, n) : y <= x
     IN  log[m].type = "keydown" /\ log[m].t # 0

\* the dwell samples the first n events of the log call for
RECURSIVE DwellsUpTo(_, _)
DwellsUpTo(log, n) ==
  IF n = 0 THEN <<>>
  ELSE IF ClosesKeyDown(log, n)
       THEN LET m == CHOOSE x \in SameKeyBefore(log, n) :
                       \A y \in SameKeyBefore(log, n) : y <= x
            IN  Append(DwellsUpTo(log, n - 1), IntN(log[n].t - log[m].t))
       ELSE DwellsUpTo(log, n - 1)

\* C11: the dwell samples are, in order, one per keyup that closes an
\* outstanding keydown of its key since the last reset, each the time of the
\* keyup minus the time of that keydown; a keydown without a keyup, and a
\* keyup whose key is not outstanding (never pressed, pressed before the
\* reset, already released, or pressed at timestamp 0) add none, and a
\* session with no closing keyup has null dwell statistics.
C11_DwellSamples ==
  /\ trackingState.dwellTimes = DwellsUpTo(keyLog, Len(keyLog))
  /\ \A i \in 1..Len(data) :
       (\A n \in 1..Len(keyLog) : ~ClosesKeyDown(keyLog, n))
         => data[i].dwell_time_mean_ms.null /\ data[i].dwell_time_std_ms.null

\* a key is pressed, released and released again: one sample
C11_Witness ==
  /\ Len(keyLog) = 3
  /\ keyLog[1].type = "keydown" /\ keyLog[2].type = "keyup"
  /\ keyLog[3].type = "keyup"
  /\ keyLog[1].key = keyLog[2].key /\ keyLog[2].key = keyLog[3].key
  /\ keyLog[2].t < keyLog[3].t
  /\ Len(trackingState.dwellTimes) = 1

\* the times of the keydown events of the log, in order
KeyDownTimes(log) ==
  LET downs == SelectSeq(log, LAMBDA e : e.type = "keydown")
  IN  [i \in 1..Len(downs) |-> downs[i].t]

\* C12: after k keydown events since the last reset flightTimes holds k - 1
\* samples (none for k = 0), the i-th being the time of keydown i + 1 minus
\* the time of keydown i, whatever the keys and whatever other events
\* happened in between.
C12_FlightSamples ==
  LET times == KeyDownTimes(keyLog)
  IN  /\ Len(trackingState.flightTimes)
           = (IF Len(times) = 0 THEN 0 ELSE Len(times) - 1)
      /\ \A i \in 1..Len(trackingState.flightTimes) :
           trackingState.flightTimes[i] = IntN(times[i + 1] - times[i])

\* two keydowns of different keys with a pointer event between them, after
\* time has passed
C12_Witness ==
  /\ Len(keyLog) = 2 /\ sessionEvents = 3
  /\ keyLog[1].type = "keydown" /\ keyLog[2].type = "keydown"
  /\ keyLog[1].key # keyLog[2].key
  /\ trackingState.lastMousePos # NoPos
  /\ keyLog[1].t < trackingState.lastMouseTime.n
  /\ trackingState.lastMouseTime.n < keyLog[2].t
  /\ trackingState.flightTimes = <<IntN(keyLog[2].t - keyLog[1].t)>>

\* C13: the idle time a vector reports (mouse_idle_time_ms) is the sum of
\* the gaps over 2000 ms between consecutive capture events of the session,
\* and idle_time_percentage is that sum divided by the session's duration;
\* a session with such a gap reports a positive idle time.
C13_IdleTimeIsSumOfLongGaps ==
  \A i \in 1..Len(data) :
    /\ data[i].mouse_idle_time_ms = idleGaps
    /\ data[i].idle_time_percentage
         = DivN(IntN(idleGaps), data[i].form_completion_time_ms)
    /\ idleGaps > 0 => data[i].mouse_idle_time_ms > 0

\* the pointer does not move along the log: its total path length is 0
PathLengthIsZero(log) == \A i \in 1..Len(log) : log[i] = log[1]

\* C14: in a vector extracted from a session with a single pointer sample,
\* or with pointer samples and a total path length of 0, the curvature ratio
\* is 0; for every other pointer sequence it is a finite number in [0,1],
\* and it is 0 when the first and the last sample coincide.
C14_CurvatureRatio ==
  \A i \in 1..Len(data) :
    LET ratio == data[i].path_curvature_ratio
    IN  /\ (Len(mouseLog) >= 1 /\ PathLengthIsZero(mouseLog)) => ratio = IntN(0)
        /\ Len(mouseLog) >= 2
             => /\ ~ratio.null /\ ~ratio.r /\ ratio.d > 0
                /\ 0 <= ratio.n /\ ratio.n <= ratio.d
        /\ (Len(mouseLog) >= 2 /\ mouseLog[1] = mouseLog[Len(mouseLog)])
             => ratio = IntN(0)

\* every feature of d other than the two boolean ones is in its normal range:
\* the rule set adds no point for it
OthersNormal(d) ==
  Risk([d EXCEPT !.copyPasteDetected = FALSE, !.vpnDetected = FALSE]) = 0

\* C15: whenever a scored input has copy-paste detected and the VPN flag
\* true, the total includes 10 points for each (at least 20), and when every
\* other feature is in its normal range the decision is at least MEDIUM,
\* never SAFE.
C15_PasteAndVpnChallenge ==
  (fraudData.copyPasteDetected /\ fraudData.vpnDetected)
    => /\ risk >= 20
       /\ OthersNormal(fraudData) => fraudData.riskLevel # "SAFE"

\* C15 (amended): whenever a scored input has copy-paste detected and the
\* VPN flag true, the total includes 10 points for each (at least 20); with
\* every other feature in its normal range the total is exactly 20 and the
\* decision is SAFE; the decision is at least MEDIUM exactly when the other
\* features add at least 10 points.
C15_PasteAndVpnPoints ==
  (fraudData.copyPasteDetected /\ fraudData.vpnDetected)
    => /\ risk >= 20
       /\ OthersNormal(fraudData)
            => risk = 20 /\ fraudData.riskLevel = "SAFE"
       /\ fraudData.riskLevel # "SAFE"
            <=> (\E others \in 10..200 :
                   /\ risk = 20 + others
                   /\ ~OthersNormal(fraudData))

\* an input with both flags and every other feature normal has been scored
C15_Witness ==
  /\ fraudData.copyPasteDetected /\ fraudData.vpnDetected
  /\ OthersNormal(fraudData)
  /\ fraudData.totalRiskScore = 20

\* the points the rule set adds for feature f of input d: the total falls by
\* that much when f is put back in its normal range (the rules are additive)
Added(f, d) == Risk(d) - Risk([d EXCEPT ![f] = LevelValue[f][1]])

RECURSIVE SumOver(_, _)
SumOver(F, g) ==
  IF F = {} THEN 0
  ELSE LET f == CHOOSE x \in F : TRUE IN g[f] + SumOver(F \ {f}, g)

\* C16: after a scoring, for every metric the points its card reports equal
\* the points the rule set added for the same value, the card reports
\* NORMAL (NONE for a flag) exactly when the rule added nothing, so a value
\* in its normal range reports 0 points, and the reported points sum to the
\* unclamped total.
C16_CardsReportTheRule ==
  fraudData # InitialFraudData
    => LET shown == Rendered(fraudData)
       IN  /\ \A f \in Features :
                /\ shown[f].risk = Added(f, FeaturesOf(fraudData))
                /\ shown[f].status \in {"NORMAL", "NONE"}
                     <=> Added(f, FeaturesOf(fraudData)) = 0
           /\ SumOver(Features, [f \in Features |-> shown[f].risk]) = risk

\* C17: once a baseline is stored (onboardingComplete true in the storage),
\* every step other than the clear of resetOnboarding leaves it stored and
\* equal; and in every reachable storage state onboardingComplete true
\* implies a stored baseline whose keystrokeCount is at least 2 and equal to
\* the length of its pattern.
C17_BaselinePersists ==
  /\ [](StoredComplete(storage)
          => /\ "behavioralBaseline" \in DOMAIN storage
             /\ storage.behavioralBaseline.keystrokeCount >= 2
             /\ storage.behavioralBaseline.keystrokeCount
                  = Len(storage.behavioralBaseline.pattern))
  /\ [][StoredComplete(storage)
          => \/ ResetOnboarding
             \/ /\ StoredComplete(storage')
                /\ storage'.behavioralBaseline = storage.behavioralBaseline]_vars

\* a baseline is stored and Activate Protection was clicked again before the
\* first callback of set ran
C17_Witness ==
  /\ StoredComplete(storage)
  /\ storage.behavioralBaseline.keystrokeCount = 2
  /\ app.saving = 2

\* the longest buffer a slice of the hook allows: slice(-100) and one append
BufferCap == 101

\* C18: for any number of captured events, every capture buffer of the
\* tracking hook (mouseMovements, keystrokes, typingSpeeds, clickPatterns,
\* scrollEvents, pasteEvents) stays at or below a fixed length.
C18_BuffersBounded ==
  \A b \in {"mouseMovements", "keystrokes", "typingSpeeds", "clickPatterns",
            "scrollEvents", "pasteEvents"} :
    Len(behaviorData[b]) <= BufferCap

C20_BackspaceRatio ==
  /\ trackingState.backspaceCount <= trackingState.totalKeystrokes
  /\ \A i \in 1..Len(data) :
       LET rate == data[i].backspace_rate
       IN  /\ ~rate.null /\ ~rate.r /\ rate.d > 0
           /\ 0 <= rate.n /\ rate.n <= rate.d
           /\ (\A j \in 1..Len(keyLog) : keyLog[j].type # "keydown")
                => rate = IntN(0)

\* a session with a Backspace and another keydown has been extracted: the
\* rate is 1/2
C20_Witness ==
  /\ data # <<>>
  /\ trackingState.backspaceCount = 1 /\ trackingState.totalKeystrokes = 2
  /\ data[1].backspace_rate = Num(1, 2)

\* C21: the copy/paste flag of the session, and of every vector extracted
\* from it, is true exactly when a paste or a copy event was handled since
\* the last reset: it stays true through every other event and is false
\* again after the reset.
C21_CopyPasteFlag ==
  /\ trackingState.copyPasteUsed = clipboard
  /\ \A i \in 1..Len(data) : data[i].copy_paste_used = clipboard

\* a session with a paste or a copy and a later key event, extracted with
\* the flag set
C21_Witness ==
  /\ data # <<>>
  /\ data[1].copy_paste_used
  /\ keyLog # <<>>
  /\ sessionEvents = 2

\* the samples of one raw array over the records collected so far, in order
RECURSIVE RawSamples(_, _)
RawSamples(records, field) ==
  IF records = <<>> THEN <<>>
  ELSE records[1].raw_json[field] \o RawSamples(Tail(records), field)

\* the samples captured so far: those of the records, then those of the
\* running session
AllSamples(field) ==
  RawSamples(collectedBehavioralData, field) \o trackingState[field]

\* C22: one vector per session, overlapping collections included. Every
\* collection that produces a vector appends exactly one record and leaves
\* an empty session, and no step other than a capture event changes the
\* sequence of dwell or flight samples held by the records and the running
\* session together: a sample is in one record at most and none is lost.
C22_OneVectorPerSession ==
  [][/\ totalEvents' = totalEvents =>
          \A field \in {"dwellTimes", "flightTimes"} :
             AllSamples(field)' = AllSamples(field)
     /\ totalEvents' # totalEvents =>
          collectedBehavioralData' = collectedBehavioralData
     /\ uuids' # uuids =>
          /\ Len(collectedBehavioralData') = Len(collectedBehavioralData) + 1
          /\ sessionEvents' = 0
          /\ trackingState'.dwellTimes = <<>>
          /\ trackingState'.flightTimes = <<>>]_vars

\* Next clicked twice on one question: the first collection took the dwell
\* sample of the session, the second found the session empty
C22_Witness ==
  \E i \in 1..(Len(collectedBehavioralData) - 1) :
    /\ collectedBehavioralData[i].dtype = collectedBehavioralData[i + 1].dtype
    /\ collectedBehavioralData[i].raw_json.dwellTimes # <<>>
    /\ collectedBehavioralData[i + 1].raw_json.dwellTimes = <<>>

\* the points a feature can add: none, those of its medium band (two-band
\* features) or those of its high band
BandPoints ==
  [mouseJitter        |-> {0, 3, 6},
   pathStraightness   |-> {0, 2, 5},
   hoverDelay         |-> {0, 3, 7},
   rageHover          |-> {0, 2, 5},
   clickDuration      |-> {0, 4, 8},
   scrollVelocity     |-> {0, 6},
   scrollRhythm       |-> {0, 6},
   mouseIdleTime      |-> {0, 5},
   interKeyDelay      |-> {0, 3, 7},
   dwellTime          |-> {0, 5},
   backspaceRatio     |-> {0, 6},
   typingConsistency  |-> {0, 6},
   copyPasteDetected  |-> {0, 10},
   typingBurstPattern |-> {0},
   ipDistance         |-> {0, 4, 10},
   vpnDetected        |-> {0, 10},
   timezoneMismatch   |-> {0, 8},
   deviceChanges      |-> {0, 10},
   latencyConsistency |-> {0, 5},
   tabSwitches        |-> {0, 6}]

\* C23: the bands of a feature never stack. For every scored input each
\* feature adds 0, its medium points or its high points and nothing else,
\* a boolean feature adds its points exactly when it is true, and the
\* total is the sum of these per-feature contributions.
C23_BandsNeverStack ==
  fraudData # InitialFraudData
    => LET d == FeaturesOf(fraudData)
       IN  /\ \A f \in Features : Added(f, d) \in BandPoints[f]
           /\ \A f \in {"copyPasteDetected", "vpnDetected"} :
                Added(f, d) = IF d[f] THEN 10 ELSE 0
           /\ SumOver(Features, [f \in Features |-> Added(f, d)]) = risk

\* a scored input whose jitter and IP distance are both in their high
\* band: each adds its high points only
C23_Witness ==
  /\ fraudData # InitialFraudData
  /\ fraudData.mouseJitter > 45 /\ fraudData.ipDistance > 3000
  /\ Added("mouseJitter", FeaturesOf(fraudData)) = 6
  /\ Added("ipDistance", FeaturesOf(fraudData)) = 10

Discarded(s) ==
  /\ \A k \in SignUpKeys : s.keyDownTimes[k] = Null
  /\ s.dwellTimes = <<>> /\ s.flightTimes = <<>>
  /\ s.lastKeyDownTime = Null
  /\ s.totalKeystrokes = 0 /\ s.backspaceCount = 0
  /\ ~s.copyPasteUsed
  /\ s.lastMousePos = NoPos /\ s.lastMouseTime = Null
  /\ s.totalMouseDistance = IntN(0) /\ s.microCorrections = 0
  /\ s.mouseVelocities = <<>> /\ s.curvatureSamples = <<>>
  /\ s.lastScrollTime = Null /\ s.scrollVelocities = <<>>
  /\ s.firstInteractionTime = Null
  /\ s.idleTimeTotal = 0

C26_AccountBeforeData ==
  /\ [](submit.pc = "saving" => submit.accountCreated)
  /\ [][(submit'.pc = "saving" /\ submit.pc # "saving")
          => submit.pc = "inserting"]_vars
  /\ [][(submit.pc \in {"selecting", "inserting"} /\ submit'.pc = "idle")
          => /\ submit'.submitError /\ ~submit'.isSubmitting
             /\ ~submit'.accountCreated /\ ~submit'.submitSuccess
             /\ submit'.timers = submit.timers
             /\ collectedBehavioralData' = collectedBehavioralData]_vars
  /\ []((submit.pc = "idle" /\ submit.submitError)
          => ~submit.isSubmitting /\ ~submit.submitSuccess)

\* a submission with a collected record has failed before the account
\* existed: the error is shown and the record is still held
C26_Witness ==
  /\ submit.pc = "idle" /\ submit.submitError
  /\ ~submit.accountCreated /\ ~submit.isSubmitting
  /\ collectedBehavioralData # <<>>

\* C27: in every reachable state of the wizard step is in 1..3 and
\* securityStep is in 1..6, whatever the sequence and interleaving of Next
\* and Previous clicks, a second Next click during the collection of the
\* first included.
C27_StepsInRange ==
  /\ step \in 1..3
  /\ securityStep \in 1..6

\* the submit button is rendered (line 897)
SubmitShown == ~(step < 3 \/ (step = 3 /\ securityStep < 6))

\* C28: the submit button is rendered only after the six security
\* questions have been displayed, and every entry into step 3 from step 2
\* starts at question 1, for every sequence of Next and Previous clicks.
C28_AllQuestionsFirst ==
  /\ [](SubmitShown => (1..6) \subseteq displayed)
  /\ [][(step = 2 /\ step' = 3) => securityStep' = 1]_vars

\* C29: each collected record describes only its own step. Whenever a
\* collection appends a record, every capture event of the session it
\* read was handled while the page of the record's dtype was displayed.
C29_RecordOfItsOwnStep ==
  [][uuids' # uuids =>
       \A page \in sessionPages :
          getDtypeForStep(page[1], page[2])
            = collectedBehavioralData'[Len(collectedBehavioralData')].dtype]_vars

\* C30: whenever the onboarding shows step 3 (Pattern Learned),
\* keystrokePattern holds at least 2 keystrokes, so that Activate
\* Protection calls chrome.storage.local.set with a baseline: for every
\* interleaving of the input change that completes the test, the timer that
\* sets step 3 and a click on Start Typing Test, pasted input included.
C30_PatternLearned ==
  (OnboardingShown /\ onboarding.step = 3)
    => /\ Len(onboarding.keystrokePattern) >= 2
       /\ saveBaseline(onboarding, storage, dateNow).called

====
